---- MODULE Spec2Model ----
(***************************************************************************)
(* A state-machine model of the solbot event-ingestion and reaction        *)
(* pipeline: TradeExecutor (services/tradeExecutor.js), RPCManager         *)
(* (utils/rpcManager.js), TokenTracker (services/tokenTracker.js),         *)
(* MempoolMonitorFree (services/mempoolMonitorFree.js) and the buy handler *)
(* of SolanaBot (bot.js).                                                  *)
(*                                                                         *)
(* JavaScript runs one job at a time: the code between two awaits of an    *)
(* async function is one atomic action here, and every await is a point    *)
(* where another task's action may be taken.                               *)
(***************************************************************************)
EXTENDS Integers, Sequences, FiniteSets, TLC

VARIABLES
  \* ---- TradeExecutor ----
  isExecuting,      \* TradeExecutor.isExecuting
  sell,             \* per caller: the executeSell call it has made, if any
  \* ---- RPCManager ----
  currentRpcIndex,  \* RPCManager.currentRpcIndex (0-based)
  currentWssIndex,  \* RPCManager.currentWssIndex
  rateLimitCount,   \* RPCManager.rateLimitCount
  rpcConnection,    \* RPCManager.connection: NoConnection or the endpoint index it was built for
  lastSwitchTime,   \* RPCManager.lastSwitchTime (ms)
  strikesAtSwitch,  \* history: this.rateLimitCount when switchToNextRPC last ran (-1: never)
  now,              \* Date.now() (ms)
  \* ---- MempoolMonitorFree ----
  isRunning,            \* MempoolMonitorFree.isRunning
  pollingInterval,      \* the polling timer is set (not cleared)
  processedSignatures,  \* the Set, as the sequence of its members in insertion order
  tick,                 \* per task: the checkRecentTransactions call it runs, if any
  \* ---- SolanaBot ----
  buyThreshold,     \* SolanaBot.buyThreshold (lamports)
  sellPercentage,   \* SolanaBot.sellPercentage
  \* ---- the environment ----
  head,             \* how many transactions the ledger holds for the watched asset
  firesLeft,        \* how many more times the polling timer fires
  \* ---- the presentation sink and the calls made (history) ----
  sinkTx,           \* the transaction events emitted (emitTransaction), as a set
  sinkTxCount,      \* per signature: how many transaction events were emitted for it
  classified,       \* the signatures parseHeliusTransaction was applied to
  skips,            \* the signatures a tick met again and skipped as processed
  requests,         \* per signature: how many buyInfo objects were built for it
  proceeded,        \* the signatures whose handler invocation passed the threshold check
  balanceLog,       \* per signature: what getAccount answered to its handler invocations
  sellLog,          \* per signature: the amounts executeSell was called with for it
  sinkSell,         \* the results emitted with emitSellExecuted
  sinkError,        \* the error notices emitted with emitError by the buy handler
  \* ---- TokenTracker called on its own ----
  calc,             \* the calculateSellAmount call a direct caller has made, if any
  \* ---- SolanaBot and the monitors it builds over its life ----
  botIsRunning,     \* SolanaBot.isRunning
  tokenTracker,     \* the asset SolanaBot.tokenTracker is bound to
  monitors,         \* the MempoolMonitorFree objects built so far, in order of construction;
                    \* SolanaBot.mempoolMonitor refers to the last one
  timers,           \* the interval timers the event loop holds (set and not cleared)
  timersMade,       \* how many interval timers were ever set
  poll,             \* per task: the polling tick it runs, if any, and the monitor it belongs to
  \* ---- history of the bot's life ----
  lastChange,       \* the last changeToken call made, with what it left behind
  crossTalk,        \* what a replaced monitor handed to the web server and to the buy
                    \* handler after its successor was started
  lateFires,        \* the timer callbacks that ran for a monitor that was not running
  queried,          \* the monitors that made a provider call
  overlapped,       \* per task: the sell it had in flight when changeToken or stop last ran
  \* ---- the environment of a polling tick ----
  ledger,           \* per signature: what the parsing service reports for the transaction
  fault,            \* the external call that failed in the last step, if one did (history)
  \* ---- the process from its launch ----
  config,           \* the config object as the environment variables made it
  phase             \* loaded (initialize() not called yet), failed (it threw: the
                    \* process exits), initialized

execVars == <<isExecuting, sell>>
rpcVars  == <<currentRpcIndex, currentWssIndex, rateLimitCount, rpcConnection,
              lastSwitchTime, strikesAtSwitch, now>>
monVars  == <<isRunning, pollingInterval, processedSignatures, tick, buyThreshold,
              sellPercentage, head, firesLeft>>
sinkVars == <<sinkTx, sinkTxCount, classified, skips, requests, proceeded, balanceLog, sellLog,
              sinkSell, sinkError>>
calcVars == <<calc>>
botVars  == <<botIsRunning, tokenTracker, monitors, timers, timersMade, poll, lastChange,
              crossTalk, lateFires, queried, overlapped>>
tickVars == <<ledger, fault>>
bootVars == <<config, phase>>
vars     == <<execVars, rpcVars, monVars, sinkVars, calcVars, botVars, tickVars, bootVars>>

(***************************************************************************)
(* Bounds of the model.                                                    *)
(***************************************************************************)
\* Callers (async tasks) that may have an executeSell call outstanding at once.
MaxTasks == 3
\* Largest token amount a direct caller passes to executeSell.
MaxAmount == 2
\* How many polling periods the clock advances.
MaxClockSteps == 8
\* Cap on the rate-limit strike counter (the code's counter is unbounded).
MaxStrikes == 5
\* Date.now() when the RPCManager is constructed; any value above the
\* cooldown behaves alike (the real value is a current epoch time).
StartTime == 100000

Tasks == 1..MaxTasks

(***************************************************************************)
(* JavaScript Numbers                                                      *)
(*                                                                         *)
(* Token amounts are u64 quantities that the code holds as Numbers         *)
(* (IEEE-754 binary64).  An integer v is written here as three limbs       *)
(* <<l0, l1, l2>> with v = l0 + l1 * 2^20 + l2 * 2^40, 0 <= l0, l1 < 2^20, *)
(* and l2 carrying the sign; every operation below works limb by limb so   *)
(* that no intermediate value leaves 32 bits.                              *)
(***************************************************************************)
LimbBase == 2^20

\* The significand of a binary64 holds 53 bits.
DoublePrecision == 53

Zero == <<0, 0, 0>>

\* The limbs of a small integer n (|n| < 2^31).
Num(n) == <<n % LimbBase, (n \div LimbBase) % LimbBase, (n \div LimbBase) \div LimbBase>>

\* x > 0
IsPositive(x) == x[3] > 0 \/ (x[3] = 0 /\ (x[2] > 0 \/ x[1] > 0))

\* The number of bits of a small n >= 0.
RECURSIVE Bits(_)
Bits(n) == IF n = 0 THEN 0 ELSE 1 + Bits(n \div 2)

\* The number of bits of x >= 0.
BitLength(x) ==
  IF x[3] > 0 THEN 40 + Bits(x[3])
  ELSE IF x[2] > 0 THEN 20 + Bits(x[2])
  ELSE Bits(x[1])

\* x * p, exactly, for x >= 0 and 0 <= p <= 100.
Times(x, p) ==
  LET a0 == x[1] * p
      a1 == x[2] * p + a0 \div LimbBase
      a2 == x[3] * p + a1 \div LimbBase
  IN <<a0 % LimbBase, a1 % LimbBase, a2>>

\* x + d, exactly, for x >= 0 and 0 <= d < 2^20.
Plus(x, d) ==
  LET a0 == x[1] + d
      a1 == x[2] + a0 \div LimbBase
  IN <<a0 % LimbBase, a1 % LimbBase, x[3] + a1 \div LimbBase>>

\* The quotient and the remainder of x >= 0 by 100, exactly.
DivMod100(x) ==
  LET t1 == (x[3] % 100) * LimbBase + x[2]
      t0 == (t1 % 100) * LimbBase + x[1]
  IN [quot |-> <<t0 \div 100, t1 \div 100, x[3] \div 100>>, rem |-> t0 % 100]

\* The binary64 nearest to the integer x >= 0 (ties to the even
\* significand): x itself up to 53 bits, beyond that x rounded to a
\* multiple of 2^(bits - 53).  For x below 2^72.
ToDouble(x) ==
  LET b == BitLength(x) IN
  IF b <= DoublePrecision THEN x
  ELSE LET step == 2^(b - DoublePrecision)
           low  == x[1] % step
           down == <<x[1] - low, x[2], x[3]>>
           odd  == (x[1] \div step) % 2 = 1
       IN IF 2 * low > step \/ (2 * low = step /\ odd) THEN Plus(down, step) ELSE down

\* Math.floor(x / 100) for a binary64 x holding an integer >= 0: the
\* quotient k + r/100 (k, r integers, 0 <= r < 100) is rounded to the
\* nearest binary64 and then floored.  With k of b bits the binary64s
\* around the quotient are 2^(b-53) apart:
\*   b >= 53  they are integers, and the nearest one is k's multiple of
\*            2^(b-53) below or above;
\*   b <  53  k is one of them, and the floor is k + 1 exactly when the
\*            quotient rounds up to k + 1, that is when
\*            1 - r/100 <= 2^(b-53) / 2.
MathFloorOfHundredth(x) ==
  LET dm == DivMod100(x)
      k  == dm.quot
      r  == dm.rem
      b  == BitLength(k)
  IN IF b = 0 THEN Zero
     ELSE IF b >= DoublePrecision
       THEN LET step == 2^(b - DoublePrecision)
                low  == k[1] % step
                down == <<k[1] - low, k[2], k[3]>>
                odd  == (k[1] \div step) % 2 = 1
                t    == 2 * (100 * low + r)
            IN IF t > 100 * step \/ (t = 100 * step /\ odd) THEN Plus(down, step) ELSE down
     ELSE IF b >= DoublePrecision - 5 /\ (100 - r) * 2^(DoublePrecision + 1 - b) <= 100
       THEN Plus(k, 1)
     ELSE k

(***************************************************************************)
(* TradeExecutor                                                           *)
(***************************************************************************)
\* The signature sendAndConfirmTransaction returns for a confirmed sell.
SellSignature == "sellSig"

NoResult   == [kind |-> "none", signature |-> "", amount |-> Zero]
\* `return null`
NullResult == [kind |-> "null", signature |-> "", amount |-> Zero]
\* `return { signature, amount, timestamp }`
SellResult(amount) == [kind |-> "result", signature |-> SellSignature, amount |-> amount]

\* The properties of what executeSell returned: the object of its return
\* statement has signature, amount and timestamp; null has none, and
\* reading a property of null throws a TypeError.
Properties(result) ==
  IF result.kind = "result" THEN {"signature", "amount", "timestamp"} ELSE {}

\* CombinedServer.handleBuyDetected (sink present) and
\* SolanaCLIBot.handleBuyDetected (no sink), from the return of the awaited
\* executeSell to the end of the handler: `if (sellResult.success)` counts
\* the sell (the CLI with ++, CombinedServer once itself and once more in
\* emitSellExecuted, which also emits the sell-executed notice); else the
\* failure is logged; a TypeError of the test is caught by the handler's
\* catch and logged.
handleBuyDetectedAfterSell(result, sink) ==
  IF result.kind = "null"
    THEN [sellOrdersExecuted |-> 0, sellExecuted |-> FALSE, raised |-> TRUE,
          logged |-> "Error handling buy detection"]
    ELSE IF "success" \in Properties(result)
           THEN [sellOrdersExecuted |-> IF sink THEN 2 ELSE 1, sellExecuted |-> sink,
                 raised |-> FALSE, logged |-> "Sell order executed successfully"]
           ELSE [sellOrdersExecuted |-> 0, sellExecuted |-> FALSE, raised |-> FALSE,
                 logged |-> "Sell order failed"]

\* A caller with no executeSell call outstanding.
\*   pc      where the call is: idle (not called), derive / build / send (suspended
\*           at the await of that step), returned (the promise has resolved)
\*   built   a Transaction was built for this call and handed to sendAndConfirmTransaction
\*   busyAtEntry  another call was past the guard when this one was issued
\*   failedAt  the step whose await rejected, if one did
NoCall == [pc |-> "idle", amount |-> Zero, result |-> NoResult, built |-> FALSE,
           busyAtEntry |-> FALSE, failedAt |-> ""]

InFlightPcs == {"derive", "build", "send"}

\* The calls that are past the guard and have not resolved.
InFlight == {c \in Tasks : sell[c].pc \in InFlightPcs}

\* constructor: isExecuting = false
TradeExecutorInit ==
  /\ isExecuting = FALSE
  /\ sell = [c \in Tasks |-> NoCall]

\* MUTANT of ExecuteSellEnter: the guard is not tested.
ExecuteSellEnterNoGuard(c, amount) ==
  /\ sell[c].pc = "idle"
  /\ IF ~IsPositive(amount)
       THEN /\ sell' = [sell EXCEPT ![c] = [NoCall EXCEPT !.pc = "returned",
                          !.amount = amount, !.result = NullResult,
                          !.busyAtEntry = (InFlight # {})]]
            /\ UNCHANGED isExecuting
       ELSE /\ isExecuting' = TRUE
            /\ sell' = [sell EXCEPT ![c] = [NoCall EXCEPT !.pc = "derive",
                          !.amount = amount, !.busyAtEntry = (InFlight # {})]]

\* MUTANT of ExecuteSellEnter: a non-positive amount is not rejected.
ExecuteSellEnterNoAmountCheck(c, amount) ==
  /\ sell[c].pc = "idle"
  /\ IF isExecuting
       THEN /\ sell' = [sell EXCEPT ![c] = [NoCall EXCEPT !.pc = "returned",
                          !.amount = amount, !.result = NullResult,
                          !.busyAtEntry = (InFlight # {})]]
            /\ UNCHANGED isExecuting
       ELSE /\ isExecuting' = TRUE
            /\ sell' = [sell EXCEPT ![c] = [NoCall EXCEPT !.pc = "derive",
                          !.amount = amount, !.busyAtEntry = (InFlight # {})]]

\* executeSell(amount), from the call to its first await: the two early
\* returns, then isExecuting = true and the call suspends in
\* getAssociatedTokenAddress.
ExecuteSellEnter(c, amount) ==
  /\ sell[c].pc = "idle"
  /\ IF isExecuting \/ ~IsPositive(amount)
       THEN /\ sell' = [sell EXCEPT ![c] = [NoCall EXCEPT !.pc = "returned",
                          !.amount = amount, !.result = NullResult,
                          !.busyAtEntry = (InFlight # {})]]
            /\ UNCHANGED isExecuting
       ELSE /\ isExecuting' = TRUE
            /\ sell' = [sell EXCEPT ![c] = [NoCall EXCEPT !.pc = "derive",
                          !.amount = amount, !.busyAtEntry = (InFlight # {})]]

\* MUTANT of ExecuteSellFail: the guard is not released on the failure path.
ExecuteSellFailKeepsGuard(c) ==
  /\ sell[c].pc \in InFlightPcs
  /\ sell' = [sell EXCEPT ![c].pc = "returned", ![c].result = NullResult,
                          ![c].failedAt = sell[c].pc]
  /\ UNCHANGED isExecuting

\* MUTANT of ExecuteSellFail: the rejection is not caught and reaches the
\* caller.
ExecuteSellFailRejects(c) ==
  /\ sell[c].pc \in InFlightPcs
  /\ sell' = [sell EXCEPT ![c].pc = "rejected", ![c].failedAt = sell[c].pc]
  /\ isExecuting' = FALSE

\* An awaited step of executeSell rejects: catch returns null, finally
\* clears the guard.
ExecuteSellFail(c) ==
  /\ sell[c].pc \in InFlightPcs
  /\ sell' = [sell EXCEPT ![c].pc = "returned", ![c].result = NullResult,
                          ![c].failedAt = sell[c].pc]
  /\ isExecuting' = FALSE

\* getAssociatedTokenAddress resolves; createSellTransaction is called and
\* suspends (bonding-curve derivation, getLatestBlockhash).
ExecuteSellDerived(c) ==
  /\ sell[c].pc = "derive"
  /\ sell' = [sell EXCEPT ![c].pc = "build"]
  /\ UNCHANGED isExecuting

\* createSellTransaction resolves with the transaction, which is handed to
\* sendAndConfirmTransaction.
ExecuteSellBuilt(c) ==
  /\ sell[c].pc = "build"
  /\ sell' = [sell EXCEPT ![c].pc = "send", ![c].built = TRUE]
  /\ UNCHANGED isExecuting

\* sendAndConfirmTransaction resolves with the signature: the result is
\* returned and finally clears the guard.
ExecuteSellConfirmed(c) ==
  /\ sell[c].pc = "send"
  /\ sell' = [sell EXCEPT ![c].pc = "returned",
                          ![c].result = SellResult(sell[c].amount)]
  /\ isExecuting' = FALSE

\* The caller has consumed the result; it may call again.
ExecuteSellForget(c) ==
  /\ sell[c].pc = "returned"
  /\ sell' = [sell EXCEPT ![c] = NoCall]
  /\ UNCHANGED isExecuting

(***************************************************************************)
(* RPCManager                                                              *)
(***************************************************************************)
\* config.rpcEndpoints.length (= config.wssEndpoints.length)
NumEndpoints == 3
\* this.maxRateLimitCount
maxRateLimitCount == 3
\* this.switchCooldown (ms)
switchCooldown == 30000
\* The period of the polling timer (ms): the step by which the clock advances.
PollingPeriod == 10000

NoConnection == -1

\* constructor
RPCManagerInit ==
  /\ currentRpcIndex = 0
  /\ currentWssIndex = 0
  /\ rateLimitCount = 0
  /\ rpcConnection = NoConnection
  /\ lastSwitchTime = 0
  /\ strikesAtSwitch = -1
  /\ now = StartTime

shouldSwitchRPC ==
  /\ rateLimitCount >= maxRateLimitCount
  /\ (now - lastSwitchTime) > switchCooldown

\* MUTANT of switchToNextRPC: the indexes are advanced without the modulo.
switchToNextRPCNoWrap(strikes) ==
  /\ strikesAtSwitch' = strikes
  /\ currentRpcIndex' = currentRpcIndex + 1
  /\ currentWssIndex' = currentWssIndex + 1
  /\ rpcConnection' = currentRpcIndex + 1
  /\ rateLimitCount' = 0
  /\ lastSwitchTime' = now

\* switchToNextRPC(), entered with this.rateLimitCount = strikes.
switchToNextRPC(strikes) ==
  /\ strikesAtSwitch' = strikes
  /\ currentRpcIndex' = (currentRpcIndex + 1) % NumEndpoints
  /\ currentWssIndex' = (currentWssIndex + 1) % NumEndpoints
  /\ rpcConnection' = (currentRpcIndex + 1) % NumEndpoints
  /\ rateLimitCount' = 0
  /\ lastSwitchTime' = now

rpcUnchanged == UNCHANGED <<currentRpcIndex, currentWssIndex, rateLimitCount,
                            rpcConnection, lastSwitchTime, strikesAtSwitch>>

\* getConnection()
getConnection ==
  /\ IF rpcConnection = NoConnection \/ shouldSwitchRPC
       THEN switchToNextRPC(rateLimitCount)
       ELSE rpcUnchanged
  /\ UNCHANGED now

\* MUTANT of handleRateLimit: the cooldown is not tested.
handleRateLimitIgnoresCooldown ==
  /\ rateLimitCount < MaxStrikes
  /\ IF rateLimitCount + 1 >= maxRateLimitCount
       THEN switchToNextRPC(rateLimitCount + 1)
       ELSE /\ rateLimitCount' = rateLimitCount + 1
            /\ UNCHANGED <<currentRpcIndex, currentWssIndex, rpcConnection,
                           lastSwitchTime, strikesAtSwitch>>
  /\ UNCHANGED now

\* handleRateLimit(): the count is read by shouldSwitchRPC after the increment.
handleRateLimit ==
  /\ rateLimitCount < MaxStrikes
  /\ IF /\ rateLimitCount + 1 >= maxRateLimitCount
        /\ (now - lastSwitchTime) > switchCooldown
       THEN switchToNextRPC(rateLimitCount + 1)
       ELSE /\ rateLimitCount' = rateLimitCount + 1
            /\ UNCHANGED <<currentRpcIndex, currentWssIndex, rpcConnection,
                           lastSwitchTime, strikesAtSwitch>>
  /\ UNCHANGED now

\* resetRateLimit()
resetRateLimit ==
  /\ rateLimitCount' = IF rateLimitCount > 0
                         THEN (IF rateLimitCount - 1 > 0 THEN rateLimitCount - 1 ELSE 0)
                         ELSE rateLimitCount
  /\ UNCHANGED <<currentRpcIndex, currentWssIndex, rpcConnection, lastSwitchTime,
                 strikesAtSwitch, now>>

\* Time passes.
AdvanceClock ==
  /\ now < StartTime + MaxClockSteps * PollingPeriod
  /\ now' = now + PollingPeriod
  /\ rpcUnchanged

(***************************************************************************)
(* TokenTracker                                                            *)
(***************************************************************************)
\* SELL_PERCENTAGE's default.
DefaultSellPercentage == 25

\* What getAccount answers: the account with its amount (a u64), or one of
\* two failures.
AccountWith(amount) == [kind |-> "account", amount |-> amount]
\* rejects with 'could not find account'
AccountNotFound == [kind |-> "notfound", amount |-> Zero]
\* rejects with any other error
AccountError == [kind |-> "error", amount |-> Zero]

\* MUTANT of getBalanceRejects: every failure of getAccount is rethrown.
getBalanceRejectsNotFound(answer) == answer.kind # "account"

\* getBalance() rejects: the error is rethrown.
getBalanceRejects(answer) == answer.kind = "error"

\* getBalance(), given what getAccount answers (other than an error that is
\* rethrown): Number(tokenAccount.amount), or 0 for an account that does
\* not exist.
getBalance(answer) ==
  IF answer.kind = "notfound" THEN Zero ELSE ToDouble(answer.amount)

\* MUTANT of calculateSellAmount: the division by 100 is missing.
calculateSellAmountNoDivision(balance, percentage) ==
  IF balance = Zero THEN Zero ELSE ToDouble(Times(balance, percentage))

\* calculateSellAmount(percentage), given the balance getBalance returned:
\* Math.floor((balance * percentage) / 100), each operation a binary64 one.
\* The percentage is a whole number of percent.
calculateSellAmount(balance, percentage) ==
  IF balance = Zero THEN Zero
  ELSE MathFloorOfHundredth(ToDouble(Times(balance, percentage)))

(***************************************************************************)
(* The ledger and the data providers (the environment)                     *)
(***************************************************************************)
\* Transactions the ledger may come to hold for the watched asset, numbered
\* in the order they are confirmed; a transaction's number is its signature.
NumSigs == 3
\* getSignaturesForAddress(..., { limit: 10 }): the window of a polling tick,
\* scaled down.
WindowLen == 2
\* getSignaturesForAddress(..., { limit: 3 }): the window of the fallback,
\* scaled down.
BasicWindowLen == 1
\* Concurrent polling ticks (the timer fires whether or not the previous
\* tick has returned).
MaxTicks == 2
\* How many times the polling timer fires in a run.
MaxFires == 2
\* this.maxProcessedSignatures (1000 in the code), scaled down with the ledger.
maxProcessedSignatures == 2

Sigs  == 1..NumSigs
Ticks == 1..MaxTicks

\* What the parsing service reports for a transaction: its declared type and
\* the lamports of its native transfers.
Report(type, lamports) == [type |-> type, lamports |-> lamports]

\* A ledger of swaps: signature 1 is a 0.15 SOL swap, 2 a 0.3 SOL swap, 3 a
\* 0.5 SOL swap, 4 a 0.7 SOL plain transfer, ...
SwapLedger ==
  [s \in Sigs |->
     CASE s % 4 = 1 -> Report("SWAP", 150000000)
       [] s % 4 = 2 -> Report("SWAP", 300000000)
       [] s % 4 = 3 -> Report("SWAP", 500000000)
       [] OTHER     -> Report("TRANSFER", 700000000)]

\* A ledger with one transaction of each kind the monitor tells apart: 1 is
\* a 0.3 SOL swap, 2 a swap without native transfer, 3 a 0.7 SOL plain
\* transfer, 4 an instruction of another type without native transfer.
MixedLedger ==
  [s \in Sigs |->
     CASE s % 4 = 1 -> Report("SWAP", 300000000)
       [] s % 4 = 2 -> Report("SWAP", 0)
       [] s % 4 = 3 -> Report("TRANSFER", 700000000)
       [] OTHER     -> Report("UNKNOWN", 0)]

\* A ledger of swaps around the dust floor: 1 is a 0.005 SOL swap, 2 a
\* 0.01 SOL swap, 3 a 0.3 SOL swap, 4 a 0.005 SOL plain transfer.
DustLedger ==
  [s \in Sigs |->
     CASE s % 4 = 1 -> Report("SWAP", 5000000)
       [] s % 4 = 2 -> Report("SWAP", 10000000)
       [] s % 4 = 3 -> Report("SWAP", 300000000)
       [] OTHER     -> Report("TRANSFER", 5000000)]

ParsedType(s) == ledger[s].type
ParsedLamports(s) == ledger[s].lamports

\* The k most recent signatures, newest first, when the ledger holds h.
Window(h, k) == [j \in 1..k |-> h + 1 - j]

Min(a, b) == IF a <= b THEN a ELSE b

\* 333,599,972,397,837 base units (a third of a 10^15 supply).
LargeAmount == <<660237, 427197, 303>>

\* What getAccount may answer when the holder's token account is read.
AccountAnswers ==
  {AccountWith(Zero), AccountWith(Num(3)), AccountWith(Num(1000)), AccountWith(LargeAmount),
   AccountNotFound, AccountError}
\* Values of SELL_PERCENTAGE: the default and another.
SellPercentages == {DefaultSellPercentage, 27}
\* Values of BUY_THRESHOLD_SOL (lamports): 0.1, the default 0.2, and 0.5 SOL.
Thresholds == {100000000, 200000000, 500000000}

(***************************************************************************)
(* MempoolMonitorFree: classification                                      *)
(***************************************************************************)
\* parseHeliusTransaction(parsedTx): transactionType and solAmount
\* (lamports; the code divides by 1e9, which keeps the order of amounts).
parseHeliusTransaction(s) ==
  LET solAmount == ParsedLamports(s) IN
  [transactionType |->
     IF ParsedType(s) = "SWAP"
       THEN (IF solAmount > 0 THEN "buy" ELSE "sell")
       ELSE (IF solAmount > 0 THEN "transaction" ELSE "pump"),
   solAmount |-> IF solAmount < 0 THEN -solAmount ELSE solAmount]

\* The literal 0.01 of parseBuyOrder's dust test, in lamports.
DustFloor == 10000000

\* No buy order found in a transaction.
NoBuyInfo == [solAmount |-> 0, buyer |-> 0]

\* parseBuyOrder(tx) on the balance changes (post - pre, lamports) of the
\* transaction's accounts: the first account that spent more than the dust
\* floor is the buyer, provided an instruction of the transaction names the
\* pump program; otherwise null.
parseBuyOrder(changes, isPumpTx) ==
  LET spenders == {i \in 1..Len(changes) :
                     changes[i] < 0 /\ (0 - changes[i]) > DustFloor /\ isPumpTx}
  IN IF spenders = {}
       THEN NoBuyInfo
       ELSE LET i == CHOOSE j \in spenders : \A k \in spenders : j <= k
            IN [solAmount |-> 0 - changes[i], buyer |-> i]

\* The literal 0.2 of checkRecentTransactions' buy test, in lamports.
MonitorBuyFloor == 200000000

\* The event handed to webServer.emitTransaction for a parsed transaction.
TxEvent(s, type, solAmount) ==
  [signature |-> s, transactionType |-> type, solAmount |-> solAmount]

(***************************************************************************)
(* MempoolMonitorFree: the polling tick (checkRecentTransactions) and the  *)
(* buy handler it awaits (SolanaBot.handleBuyDetected)                     *)
(***************************************************************************)
\* A task that runs no tick.
\*   pc      idle; bonding / direct (awaiting getSignaturesForAddress on the
\*           bonding curve / on the token); parse (awaiting the parsing
\*           service); loop (between two entries of the parsed list); basic
\*           (awaiting the fallback's getSignaturesForAddress); h_balance,
\*           h_exec, h_newbalance (inside the awaited buy handler: awaiting
\*           calculateSellAmount, executeSell, the closing getBalance)
\*   sigs    `signatures`;  parsed  `parsedTransactions` (by signature)
\*   i       the entry of `parsed` the loop is at
\*   buy     the signature of the buyInfo the handler was called with
NoTick == [pc |-> "idle", sigs |-> <<>>, parsed |-> <<>>, i |-> 0, buy |-> 0]

Processed == {processedSignatures[j] : j \in 1..Len(processedSignatures)}

\* MUTANT of MarkProcessed: the signature is not remembered.
MarkProcessedForgets(seen, s) == seen

\* processedSignatures.add(signature), as the polling paths do it.
MarkProcessed(seen, s) == Append(seen, s)

\* MUTANT of Emit: the event is not handed to the sink.
EmitNothing(count, s) == count

\* The sink's record after one more transaction event.
Emit(count, s) == [count EXCEPT ![s] = @ + 1]

\* MUTANT of TimerFire: the callback runs only when no buy handler is pending.
TimerFireAfterHandlers ==
  /\ pollingInterval
  /\ firesLeft > 0
  /\ \A h \in Ticks : tick[h].pc \notin {"h_balance", "h_exec", "h_newbalance"}
  /\ firesLeft' = firesLeft - 1
  /\ IF ~isRunning
       THEN /\ pollingInterval' = FALSE
            /\ UNCHANGED tick
       ELSE /\ \E t \in Ticks :
                 /\ tick[t].pc = "idle"
                 /\ \A u \in Ticks : u < t => tick[u].pc # "idle"
                 /\ tick' = [tick EXCEPT ![t] = [NoTick EXCEPT !.pc = "bonding"]]
            /\ UNCHANGED pollingInterval
  /\ UNCHANGED <<isRunning, processedSignatures, buyThreshold, sellPercentage, head>>
  /\ UNCHANGED <<execVars, rpcVars, sinkVars>>

\* The polling timer fires: the callback tests isRunning and calls
\* checkRecentTransactions, which suspends in getSignaturesForAddress.
\* The tick takes the first free task.
TimerFire ==
  /\ pollingInterval
  /\ firesLeft > 0
  /\ firesLeft' = firesLeft - 1
  /\ IF ~isRunning
       THEN /\ pollingInterval' = FALSE
            /\ UNCHANGED tick
       ELSE /\ \E t \in Ticks :
                 /\ tick[t].pc = "idle"
                 /\ \A u \in Ticks : u < t => tick[u].pc # "idle"
                 /\ tick' = [tick EXCEPT ![t] = [NoTick EXCEPT !.pc = "bonding"]]
            /\ UNCHANGED pollingInterval
  /\ UNCHANGED <<isRunning, processedSignatures, buyThreshold, sellPercentage, head>>
  /\ UNCHANGED <<execVars, rpcVars, sinkVars>>

\* A transaction on the watched asset is confirmed.
NewTransaction ==
  /\ head < NumSigs
  /\ head' = head + 1
  /\ UNCHANGED <<isRunning, pollingInterval, processedSignatures, tick, buyThreshold,
                 sellPercentage, firesLeft>>
  /\ UNCHANGED <<execVars, rpcVars, sinkVars>>

monFrame == UNCHANGED <<isRunning, pollingInterval, buyThreshold, sellPercentage,
                        head, firesLeft>>

\* The bonding-curve query answers with k signatures (k = 0 also stands for
\* its failure, which the inner catch turns into an empty list): with none,
\* the token is queried directly; otherwise the parsing service is called.
BondingAnswered(t) ==
  /\ tick[t].pc = "bonding"
  /\ \E k \in 0..Min(head, WindowLen) :
       tick' = [tick EXCEPT ![t].sigs = Window(head, k),
                            ![t].pc = IF k = 0 THEN "direct" ELSE "parse"]
  /\ monFrame
  /\ UNCHANGED <<processedSignatures, execVars, rpcVars, sinkVars>>

\* The direct query answers with k signatures (or fails: k = 0): with none
\* the tick returns.
DirectAnswered(t) ==
  /\ tick[t].pc = "direct"
  /\ \E k \in 0..Min(head, WindowLen) :
       tick' = [tick EXCEPT ![t] =
                  IF k = 0 THEN NoTick
                  ELSE [@ EXCEPT !.sigs = Window(head, k), !.pc = "parse"]]
  /\ monFrame
  /\ UNCHANGED <<processedSignatures, execVars, rpcVars, sinkVars>>

\* The signatures of `list` not yet processed, each once, in list order.
RECURSIVE Unseen(_, _)
Unseen(list, seen) ==
  IF list = <<>> THEN <<>>
  ELSE LET s == Head(list) IN
       IF s \in {seen[j] : j \in 1..Len(seen)}
         THEN Unseen(Tail(list), seen)
         ELSE <<s>> \o Unseen(Tail(list), MarkProcessed(seen, s))

RECURSIVE MarkAll(_, _)
MarkAll(seen, list) ==
  IF list = <<>> THEN seen ELSE MarkAll(MarkProcessed(seen, Head(list)), Tail(list))

RECURSIVE EmitAll(_, _)
EmitAll(count, list) ==
  IF list = <<>> THEN count ELSE EmitAll(Emit(count, Head(list)), Tail(list))

\* A loop that, for each signature of `list`, skips it if processed and
\* otherwise adds it and emits a basic event of type `type` (amount 0).
BasicEmission(list, type) ==
  LET fresh == Unseen(list, processedSignatures) IN
  /\ processedSignatures' = MarkAll(processedSignatures, fresh)
  /\ skips' = skips \cup ({list[j] : j \in 1..Len(list)} \cap Processed)
  /\ sinkTxCount' = EmitAll(sinkTxCount, fresh)
  /\ sinkTx' = sinkTx \cup {TxEvent(fresh[j], type, 0) : j \in 1..Len(fresh)}

\* The parsing service answers 200 with a list: the signatures asked for,
\* the same with the first one listed twice, or nothing.  An empty list makes
\* the tick emit a basic 'pump' event per signature and return; otherwise
\* the tick goes through the list.
ParseAnswered(t) ==
  /\ tick[t].pc = "parse"
  /\ \E answer \in {"all", "repeated", "none"} :
       IF answer = "none"
         THEN /\ BasicEmission(tick[t].sigs, "pump")
              /\ tick' = [tick EXCEPT ![t] = NoTick]
         ELSE /\ tick' = [tick EXCEPT ![t].pc = "loop", ![t].i = 1,
                            ![t].parsed = IF answer = "all" THEN tick[t].sigs
                                          ELSE tick[t].sigs \o <<tick[t].sigs[1]>>]
              /\ UNCHANGED <<processedSignatures, sinkTx, sinkTxCount, skips>>
  /\ monFrame
  /\ UNCHANGED <<execVars, rpcVars, classified, requests, proceeded, balanceLog, sellLog, sinkSell, sinkError>>

\* The parsing service answers 429: 'Parse API error: 429' reaches the outer
\* catch, whose first test ('429') calls handleRateLimit and getConnection.
ParseRateLimited(t) ==
  /\ tick[t].pc = "parse"
  /\ rateLimitCount < MaxStrikes
  /\ LET due == /\ rateLimitCount + 1 >= maxRateLimitCount
                /\ (now - lastSwitchTime) > switchCooldown
     IN IF due
          THEN switchToNextRPC(rateLimitCount + 1)
          ELSE /\ rateLimitCount' = rateLimitCount + 1
               /\ UNCHANGED <<currentRpcIndex, currentWssIndex, rpcConnection,
                              lastSwitchTime, strikesAtSwitch>>
  /\ tick' = [tick EXCEPT ![t] = NoTick]
  /\ monFrame
  /\ UNCHANGED <<now, processedSignatures, execVars, sinkVars>>

\* The parsing service answers another error status: the outer catch awaits
\* checkRecentTransactionsBasic, which suspends in getSignaturesForAddress.
ParseFailed(t) ==
  /\ tick[t].pc = "parse"
  /\ tick' = [tick EXCEPT ![t].pc = "basic"]
  /\ monFrame
  /\ UNCHANGED <<processedSignatures, execVars, rpcVars, sinkVars>>

\* MUTANT of ParseUnreachable: the outer catch rethrows and the promise of
\* checkRecentTransactions rejects.
ParseUnreachableRejects(t) ==
  /\ tick[t].pc = "parse"
  /\ tick' = [tick EXCEPT ![t].pc = "rejected"]
  /\ monFrame
  /\ UNCHANGED <<processedSignatures, execVars, rpcVars, sinkVars>>

\* fetch or response.json() rejects: the outer catch logs and the tick returns.
ParseUnreachable(t) ==
  /\ tick[t].pc = "parse"
  /\ tick' = [tick EXCEPT ![t] = NoTick]
  /\ monFrame
  /\ UNCHANGED <<processedSignatures, execVars, rpcVars, sinkVars>>

\* checkRecentTransactionsBasic: the query answers with k signatures (or
\* fails: k = 0); each unseen one is added and emitted as a basic event.
BasicAnswered(t) ==
  /\ tick[t].pc = "basic"
  /\ \E k \in 0..Min(head, BasicWindowLen) :
       BasicEmission(Window(head, k), "transaction")
  /\ tick' = [tick EXCEPT ![t] = NoTick]
  /\ monFrame
  /\ UNCHANGED <<execVars, rpcVars, classified, requests, proceeded, balanceLog, sellLog, sinkSell, sinkError>>

\* One pass of the loop over parsedTransactions: the dedup test, the add,
\* the classification, the emission and the buy test; for a buy at or above
\* the monitor's floor the buyInfo is built and the handler called, which
\* returns at once below the bot's threshold and otherwise suspends in
\* calculateSellAmount (getBalance).
TickLoop(t) ==
  /\ tick[t].pc = "loop"
  /\ IF tick[t].i > Len(tick[t].parsed)
       THEN /\ tick' = [tick EXCEPT ![t] = NoTick]
            /\ UNCHANGED <<processedSignatures, sinkVars>>
       ELSE LET s    == tick[t].parsed[tick[t].i]
                info == parseHeliusTransaction(s)
            IN IF s \in Processed
                 THEN /\ tick' = [tick EXCEPT ![t].i = @ + 1]
                      /\ skips' = skips \cup {s}
                      /\ UNCHANGED <<processedSignatures, sinkTx, sinkTxCount, classified,
                                     requests, proceeded, balanceLog, sellLog, sinkSell, sinkError>>
                 ELSE /\ processedSignatures' = MarkProcessed(processedSignatures, s)
                      /\ sinkTx' = sinkTx \cup
                            {TxEvent(s, info.transactionType, info.solAmount)}
                      /\ sinkTxCount' = Emit(sinkTxCount, s)
                      /\ classified' = classified \cup {s}
                      /\ IF info.transactionType = "buy" /\ info.solAmount >= MonitorBuyFloor
                           THEN /\ requests' = [requests EXCEPT ![s] = @ + 1]
                                /\ IF info.solAmount < buyThreshold
                                     THEN /\ tick' = [tick EXCEPT ![t].i = @ + 1]
                                          /\ UNCHANGED proceeded
                                     ELSE /\ tick' = [tick EXCEPT ![t].pc = "h_balance",
                                                                  ![t].buy = s]
                                          /\ proceeded' = proceeded \cup {s}
                           ELSE /\ tick' = [tick EXCEPT ![t].i = @ + 1]
                                /\ UNCHANGED <<requests, proceeded>>
                      /\ UNCHANGED <<skips, balanceLog, sellLog, sinkSell, sinkError>>
  /\ monFrame
  /\ UNCHANGED <<execVars, rpcVars>>

\* The notice handed to webServer.emitError for the buy `s`, with what led
\* to it: "balance" (calculateSellAmount rejected), "dropped" (executeSell
\* returned null because the guard was set), "failed" (executeSell returned
\* null after a failed step), "newbalance" (the closing getBalance rejected).
ErrorNotice(s, cause) == [trigger |-> s, cause |-> cause]

\* The handler returns (or its catch has run): the tick resumes its loop.
HandlerReturns(t) == [tick EXCEPT ![t].pc = "loop", ![t].i = @ + 1, ![t].buy = 0]

\* MUTANT of HandlerBalance: a sell amount of 0 is reported as a failed sell.
HandlerBalanceReportsZero(t) ==
  /\ tick[t].pc = "h_balance"
  /\ \E answer \in AccountAnswers :
       /\ balanceLog' = [balanceLog EXCEPT ![tick[t].buy] = Append(@, answer)]
       /\ IF getBalanceRejects(answer)
            THEN /\ tick' = HandlerReturns(t)
                 /\ sinkError' = sinkError \cup {ErrorNotice(tick[t].buy, "balance")}
                 /\ UNCHANGED <<execVars, sellLog>>
            ELSE LET sellAmount == calculateSellAmount(getBalance(answer), sellPercentage) IN
                 IF sellAmount = Zero
                   THEN /\ tick' = HandlerReturns(t)
                        /\ sinkError' = sinkError \cup {ErrorNotice(tick[t].buy, "failed")}
                        /\ UNCHANGED <<execVars, sellLog>>
                   ELSE /\ ExecuteSellEnter(t, sellAmount)
                        /\ sellLog' = [sellLog EXCEPT ![tick[t].buy] = Append(@, sellAmount)]
                        /\ tick' = [tick EXCEPT ![t].pc = "h_exec"]
                        /\ UNCHANGED sinkError
  /\ monFrame
  /\ UNCHANGED <<processedSignatures, rpcVars, sinkTx, sinkTxCount, classified, skips,
                 requests, proceeded, sinkSell>>

\* handleBuyDetected after calculateSellAmount: getAccount answers; an
\* error other than 'could not find account' is rethrown to the handler's
\* catch; a sell amount of 0 returns; otherwise executeSell is called.
HandlerBalance(t) ==
  /\ tick[t].pc = "h_balance"
  /\ \E answer \in AccountAnswers :
       /\ balanceLog' = [balanceLog EXCEPT ![tick[t].buy] = Append(@, answer)]
       /\ IF getBalanceRejects(answer)
            THEN /\ tick' = HandlerReturns(t)
                 /\ sinkError' = sinkError \cup {ErrorNotice(tick[t].buy, "balance")}
                 /\ UNCHANGED <<execVars, sellLog>>
            ELSE LET sellAmount == calculateSellAmount(getBalance(answer), sellPercentage) IN
                 IF sellAmount = Zero
                   THEN /\ tick' = HandlerReturns(t)
                        /\ UNCHANGED <<execVars, sellLog, sinkError>>
                   ELSE /\ ExecuteSellEnter(t, sellAmount)
                        /\ sellLog' = [sellLog EXCEPT ![tick[t].buy] = Append(@, sellAmount)]
                        /\ tick' = [tick EXCEPT ![t].pc = "h_exec"]
                        /\ UNCHANGED sinkError
  /\ monFrame
  /\ UNCHANGED <<processedSignatures, rpcVars, sinkTx, sinkTxCount, classified, skips,
                 requests, proceeded, sinkSell>>

\* An awaited step of the handler's executeSell call completes.
HandlerSellStep(t) ==
  /\ tick[t].pc = "h_exec"
  /\ \/ ExecuteSellDerived(t)
     \/ ExecuteSellBuilt(t)
     \/ ExecuteSellConfirmed(t)
     \/ ExecuteSellFail(t)
  /\ UNCHANGED <<monVars, rpcVars, sinkVars>>

\* handleBuyDetected after executeSell: a result is emitted with
\* emitSellExecuted and the balance read again; null is reported with
\* emitError(new Error('Sell order failed')), whether executeSell met a
\* failure or found the guard set, and the handler returns.
HandlerAfterSell(t) ==
  /\ tick[t].pc = "h_exec"
  /\ sell[t].pc = "returned"
  /\ IF sell[t].result.kind = "result"
       THEN /\ sinkSell' = sinkSell \cup
                 {[trigger |-> tick[t].buy, result |-> sell[t].result]}
            /\ tick' = [tick EXCEPT ![t].pc = "h_newbalance"]
            /\ UNCHANGED sinkError
       ELSE /\ tick' = HandlerReturns(t)
            /\ sinkError' = sinkError \cup
                 {ErrorNotice(tick[t].buy,
                              IF sell[t].busyAtEntry THEN "dropped" ELSE "failed")}
            /\ UNCHANGED sinkSell
  /\ sell' = [sell EXCEPT ![t] = NoCall]
  /\ monFrame
  /\ UNCHANGED <<isExecuting, processedSignatures, rpcVars, sinkTx, sinkTxCount,
                 classified, skips, requests, proceeded, balanceLog, sellLog>>

\* The closing getBalance answers, or rejects, which the handler's catch
\* reports with emitError: the handler returns.
HandlerNewBalance(t) ==
  /\ tick[t].pc = "h_newbalance"
  /\ tick' = HandlerReturns(t)
  /\ \E rejects \in BOOLEAN :
       sinkError' = IF rejects THEN sinkError \cup {ErrorNotice(tick[t].buy, "newbalance")}
                    ELSE sinkError
  /\ monFrame
  /\ UNCHANGED <<processedSignatures, execVars, rpcVars, sinkTx, sinkTxCount, classified,
                 skips, requests, proceeded, balanceLog, sellLog, sinkSell>>

(***************************************************************************)
(* MempoolMonitorFree: the failures of a polling tick's external calls,    *)
(* and stop() and start() called on the polling monitor                    *)
(***************************************************************************)
\* No external call failed in the last step.
NoFault ==
  [task |-> 0, call |-> "none", error |-> "none", count |-> 0, sigs |-> <<>>,
   running |-> FALSE, polling |-> FALSE]

\* The call `call` of tick t fails with `error` in this step; the record
\* keeps what the step found: rateLimitCount, the tick's signatures and the
\* monitor's isRunning and polling timer.
Fault(t, call, error) ==
  [task |-> t, call |-> call, error |-> error, count |-> rateLimitCount,
   sigs |-> tick[t].sigs, running |-> isRunning, polling |-> pollingInterval]

\* The errors a provider call may fail with: HTTP 429, or anything else.
ProviderErrors == {"429", "other"}

\* The bonding-curve getSignaturesForAddress rejects: the inner catch logs
\* a warning, whatever the error, and the token is queried directly.
BondingFails(t) ==
  /\ tick[t].pc = "bonding"
  /\ tick' = [tick EXCEPT ![t].pc = "direct"]
  /\ \E error \in ProviderErrors : fault' = Fault(t, "bonding", error)
  /\ monFrame
  /\ UNCHANGED <<processedSignatures, execVars, rpcVars, sinkVars>>

\* The direct getSignaturesForAddress rejects: the inner catch logs a
\* warning, whatever the error; no signature was found and the tick returns.
DirectFails(t) ==
  /\ tick[t].pc = "direct"
  /\ tick' = [tick EXCEPT ![t] = NoTick]
  /\ \E error \in ProviderErrors : fault' = Fault(t, "direct", error)
  /\ monFrame
  /\ UNCHANGED <<processedSignatures, execVars, rpcVars, sinkVars>>

\* The getSignaturesForAddress of checkRecentTransactionsBasic rejects: its
\* own catch logs the error and the tick returns.
BasicFails(t) ==
  /\ tick[t].pc = "basic"
  /\ tick' = [tick EXCEPT ![t] = NoTick]
  /\ \E error \in ProviderErrors : fault' = Fault(t, "basic", error)
  /\ monFrame
  /\ UNCHANGED <<processedSignatures, execVars, rpcVars, sinkVars>>

\* What a failed call to the parsing service looks like to the tick: the
\* status 429, another error status, a fetch that rejects (the service is
\* not reached), a body that response.json() cannot read.
ParseRateLimitedNoted(t) == ParseRateLimited(t) /\ fault' = Fault(t, "parse", "429")

ParseFailedNoted(t) == ParseFailed(t) /\ fault' = Fault(t, "parse", "status")

ParseUnreachableNoted(t) ==
  /\ ParseUnreachable(t)
  /\ \E error \in {"network", "unreadable"} : fault' = Fault(t, "parse", error)

\* A step of the buy handler; when it hands an error notice to
\* webServer.emitError, an awaited call of the handler has failed.
HandlerNoted(t, step) ==
  /\ step
  /\ fault' = IF sinkError' # sinkError THEN Fault(t, "handler", "error") ELSE NoFault

\* How many times startPolling sets the polling timer in a run.
MaxPollingTimers == 2

\* MempoolMonitorFree.stop on the polling monitor: returns when not running
\* (no step); otherwise clears the polling timer, resets isRunning and
\* clears processedSignatures. Ticks in flight go on.
MonitorStop ==
  /\ isRunning
  /\ pollingInterval' = FALSE
  /\ isRunning' = FALSE
  /\ processedSignatures' = <<>>
  /\ UNCHANGED <<tick, buyThreshold, sellPercentage, head, firesLeft>>
  /\ UNCHANGED <<execVars, rpcVars, sinkVars, calcVars, botVars, tickVars, bootVars>>

\* MempoolMonitorFree.start on the polling monitor: returns when running (no
\* step); otherwise sets isRunning and startPolling sets the polling timer.
MonitorStart ==
  /\ ~isRunning
  /\ timersMade < MaxPollingTimers
  /\ timersMade' = timersMade + 1
  /\ isRunning' = TRUE
  /\ pollingInterval' = TRUE
  /\ UNCHANGED <<processedSignatures, tick, buyThreshold, sellPercentage, head, firesLeft>>
  /\ UNCHANGED <<botIsRunning, tokenTracker, monitors, timers, poll, lastChange, crossTalk,
                 lateFires, queried, overlapped>>
  /\ UNCHANGED <<execVars, rpcVars, sinkVars, calcVars, tickVars, bootVars>>

(***************************************************************************)
(* SolanaBot: start, stop and changeToken, over the monitors the bot       *)
(* builds. Each monitor owns its isRunning flag and its two timer handles; *)
(* the web server, the buy handler and the trade executor are shared by    *)
(* all of them. A polling tick is followed here through one provider       *)
(* query, its emission and the buy handler's sell.                         *)
(***************************************************************************)
\* How many monitors the bot builds, how many interval timers are set, how
\* many timer callbacks run, how many ticks are in flight at once.
MaxMonitors == 3

MaxTimers == 4

MaxBotFires == 2

MaxBotTicks == 2

\* The assets changeToken is called with.
NumAssets == 2

Assets == 1..NumAssets

\* targetTokenAddress of a monitor built without an address.
NoAsset == 0

\* A string that is no address: new PublicKey(it) throws.
Malformed == -1

\* A timer handle that holds no timer (null, or never assigned).
NoTimer == 0

MonitorIds == 1..MaxMonitors

BotTicks == 1..MaxBotTicks

\* The monitor's constructor.
MempoolMonitorFree(asset) ==
  [targetTokenAddress |-> asset, isRunning |-> FALSE,
   pollingInterval |-> NoTimer, heartbeatInterval |-> NoTimer,
   startCalled |-> FALSE,   \* history: start() was called on it
   everRan |-> FALSE]       \* history: start() has made it run

\* The monitors and the event loop's timers, as the methods below take and
\* return them.
Heap == [monitors |-> monitors, timers |-> timers, timersMade |-> timersMade]

Timer(id, m, kind) == [id |-> id, mon |-> m, kind |-> kind]

\* MUTANT of start: the missing address is not tested.
startWithoutAsset(h, m) ==
  IF h.monitors[m].isRunning
    THEN [h EXCEPT !.monitors[m].startCalled = TRUE]
    ELSE [monitors   |-> [h.monitors EXCEPT ![m].isRunning = TRUE,
                                            ![m].startCalled = TRUE,
                                            ![m].pollingInterval = h.timersMade + 1,
                                            ![m].heartbeatInterval = h.timersMade + 2,
                                            ![m].everRan = TRUE],
          timers     |-> h.timers \cup {Timer(h.timersMade + 1, m, "polling"),
                                        Timer(h.timersMade + 2, m, "heartbeat")},
          timersMade |-> h.timersMade + 2]

\* MUTANT of start: a running monitor is started again.
startWhileRunning(h, m) ==
  IF h.monitors[m].targetTokenAddress = NoAsset
    THEN [h EXCEPT !.monitors[m].startCalled = TRUE]
    ELSE [monitors   |-> [h.monitors EXCEPT ![m].isRunning = TRUE,
                                            ![m].startCalled = TRUE,
                                            ![m].pollingInterval = h.timersMade + 1,
                                            ![m].heartbeatInterval = h.timersMade + 2,
                                            ![m].everRan = TRUE],
          timers     |-> h.timers \cup {Timer(h.timersMade + 1, m, "polling"),
                                        Timer(h.timersMade + 2, m, "heartbeat")},
          timersMade |-> h.timersMade + 2]

\* MempoolMonitorFree.start: returns when running or without an address;
\* otherwise sets isRunning, then startPolling and startHeartbeat each set
\* an interval timer and keep its handle.
start(h, m) ==
  IF h.monitors[m].isRunning \/ h.monitors[m].targetTokenAddress = NoAsset
    THEN [h EXCEPT !.monitors[m].startCalled = TRUE]
    ELSE [monitors   |-> [h.monitors EXCEPT ![m].isRunning = TRUE,
                                            ![m].startCalled = TRUE,
                                            ![m].pollingInterval = h.timersMade + 1,
                                            ![m].heartbeatInterval = h.timersMade + 2,
                                            ![m].everRan = TRUE],
          timers     |-> h.timers \cup {Timer(h.timersMade + 1, m, "polling"),
                                        Timer(h.timersMade + 2, m, "heartbeat")},
          timersMade |-> h.timersMade + 2]

\* MUTANT of clearInterval: nothing is cancelled.
clearIntervalNothing(live, handle) == live

\* clearInterval(handle).
clearInterval(live, handle) == {x \in live : x.id # handle}

\* MUTANT of stop: the heartbeat timer is left alone.
stopKeepsHeartbeat(h, m) ==
  IF ~h.monitors[m].isRunning
    THEN h
    ELSE [h EXCEPT !.monitors = [h.monitors EXCEPT ![m].isRunning = FALSE,
                                                   ![m].pollingInterval = NoTimer],
                   !.timers = clearInterval(h.timers, h.monitors[m].pollingInterval)]

\* MempoolMonitorFree.stop: returns when not running; otherwise clears both
\* timers, nulls their handles and resets isRunning (the two subscription
\* ids are never assigned, so no listener is removed and nothing is
\* awaited).
stop(h, m) ==
  IF ~h.monitors[m].isRunning
    THEN h
    ELSE [h EXCEPT !.monitors = [h.monitors EXCEPT ![m].isRunning = FALSE,
                                                   ![m].pollingInterval = NoTimer,
                                                   ![m].heartbeatInterval = NoTimer],
                   !.timers = clearInterval(
                                clearInterval(h.timers, h.monitors[m].pollingInterval),
                                h.monitors[m].heartbeatInterval)]

\* TradeExecutor.tokenMintAddress of SolanaBot.tradeExecutor: the executor
\* is built once, in initialize, from config.targetTokenAddress, and no
\* other statement assigns this.tradeExecutor or its mint.
tradeExecutorMint == config.targetTokenAddress

\* SolanaBot.mempoolMonitor: the monitor built last.
mempoolMonitor == Len(monitors)

SetHeap(h) ==
  /\ monitors' = h.monitors
  /\ timers' = h.timers
  /\ timersMade' = h.timersMade

\* A task that runs no tick of the bot's monitors.
\*   pc   idle; query (awaiting the provider); h_balance, h_exec (inside the
\*        awaited buy handler: awaiting calculateSellAmount, executeSell)
\*   mon  the monitor whose timer started the tick
NoPoll == [pc |-> "idle", mon |-> 0]

\* The sells in flight, as a lifecycle call finds them.
Overlap(by) ==
  [c \in Tasks |-> IF sell[c].pc \in InFlightPcs
                     THEN [by |-> by, call |-> sell[c]]
                     ELSE overlapped[c]]

NoOverlap == [by |-> "", call |-> NoCall]

\* A start that sets timers stays within the bound on timers.
StartFits == timersMade + 2 <= MaxTimers

\* SolanaBot.start: returns when running; otherwise sets isRunning, starts
\* the monitor and reports the monitor's address, which throws when the
\* monitor has none: the catch resets isRunning and rethrows.
BotStart ==
  /\ ~botIsRunning
  /\ StartFits
  /\ botIsRunning' = (monitors[mempoolMonitor].targetTokenAddress # NoAsset)
  /\ SetHeap(start(Heap, mempoolMonitor))
  /\ UNCHANGED <<tokenTracker, poll, lastChange, crossTalk, lateFires, queried, overlapped>>
  /\ UNCHANGED <<execVars, rpcVars, monVars, sinkVars, calcVars>>

\* SolanaBot.stop: returns when not running; otherwise stops the monitor
\* and resets isRunning.
BotStop ==
  /\ botIsRunning
  /\ SetHeap(stop(Heap, mempoolMonitor))
  /\ botIsRunning' = FALSE
  /\ overlapped' = Overlap("stop")
  /\ UNCHANGED <<tokenTracker, poll, lastChange, crossTalk, lateFires, queried>>
  /\ UNCHANGED <<execVars, rpcVars, monVars, sinkVars, calcVars>>

\* No changeToken call was made.
NoChange == [asset |-> NoAsset, returned |-> FALSE]

\* What a changeToken call left behind (history).
ChangeRecord(asset, returned, stopped, after) ==
  [asset        |-> asset,
   wasRunning   |-> botIsRunning,
   returned     |-> returned,
   oldMonitor   |-> mempoolMonitor,
   oldStopped   |-> ~stopped.monitors[mempoolMonitor].isRunning,
   oldTimers    |-> {x \in stopped.timers : x.mon = mempoolMonitor},
   tracker      |-> IF returned THEN asset ELSE tokenTracker,
   newMonitor   |-> Len(after.monitors),
   newAsset     |-> after.monitors[Len(after.monitors)].targetTokenAddress,
   newIsRunning |-> after.monitors[Len(after.monitors)].isRunning]

\* MUTANT of changeToken: the new monitor is started whether or not the
\* bot runs.
changeTokenAlwaysStarts(asset) ==
  /\ Len(monitors) < MaxMonitors
  /\ StartFits
  /\ LET stopped == stop(Heap, mempoolMonitor)
         built   == [stopped EXCEPT !.monitors = Append(@, MempoolMonitorFree(asset))]
         after   == start(built, Len(built.monitors))
     IN /\ asset \in Assets
        /\ tokenTracker' = asset
        /\ SetHeap(after)
        /\ lastChange' = (ChangeRecord(asset, TRUE, stopped, after))
  /\ overlapped' = Overlap("changeToken")
  /\ UNCHANGED <<botIsRunning, poll, crossTalk, lateFires, queried>>
  /\ UNCHANGED <<execVars, rpcVars, monVars, sinkVars, calcVars>>

\* MUTANT of changeToken: the trade executor is rebuilt too.
changeTokenRebuildsExecutor(asset) ==
  /\ Len(monitors) < MaxMonitors
  /\ StartFits
  /\ LET stopped == stop(Heap, mempoolMonitor)
         built   == [stopped EXCEPT !.monitors = Append(@, MempoolMonitorFree(asset))]
         after   == IF botIsRunning THEN start(built, Len(built.monitors)) ELSE built
     IN /\ asset \in Assets
        /\ tokenTracker' = asset
        /\ SetHeap(after)
        /\ lastChange' = (ChangeRecord(asset, TRUE, stopped, after))
  /\ overlapped' = Overlap("changeToken")
  /\ isExecuting' = FALSE
  /\ UNCHANGED <<sell, botIsRunning, poll, crossTalk, lateFires, queried>>
  /\ UNCHANGED <<rpcVars, monVars, sinkVars, calcVars>>

\* SolanaBot.changeToken(newTokenAddress): stops the monitor; builds the
\* token tracker, whose constructor throws on a string that is no address
\* (the call then rejects with the monitor stopped and nothing replaced);
\* initializes it; builds the monitor; starts it if the bot is running.
\* No step of it waits for a timer or for the provider: stop and start
\* reach no await, and tokenTracker.initialize only derives the associated
\* token address.
changeToken(asset) ==
  /\ Len(monitors) < MaxMonitors
  /\ StartFits
  /\ LET stopped == stop(Heap, mempoolMonitor)
         built   == [stopped EXCEPT !.monitors = Append(@, MempoolMonitorFree(asset))]
         after   == IF botIsRunning THEN start(built, Len(built.monitors)) ELSE built
     IN IF asset \in Assets
          THEN /\ tokenTracker' = asset
               /\ SetHeap(after)
               /\ lastChange' = (ChangeRecord(asset, TRUE, stopped, after))
          ELSE /\ SetHeap(stopped)
               /\ lastChange' = (ChangeRecord(asset, FALSE, stopped, stopped))
               /\ UNCHANGED tokenTracker
  /\ overlapped' = Overlap("changeToken")
  /\ UNCHANGED <<botIsRunning, poll, crossTalk, lateFires, queried>>
  /\ UNCHANGED <<execVars, rpcVars, monVars, sinkVars, calcVars>>

\* The largest timer handle after two overlapping changeToken calls.
MaxOverlapTimers == 6

\* Two changeToken calls whose handlers are dispatched in the same turn of
\* the event loop (the socket handlers 'changeToken' and 'tokenChange' of
\* initialize call it without any lock). Each call runs up to its next
\* await and the continuations resume in the order the calls were made:
\* the first call stops the monitor and the second finds it stopped; each
\* builds its token tracker; then each builds its monitor, assigns it to
\* this.mempoolMonitor and starts it if the bot is running. No await of the
\* calls waits for a timer or for the provider, so nothing else runs in
\* between.
changeTokenOverlapped(first, second) ==
  /\ Len(monitors) + 2 <= MaxMonitors
  /\ timersMade + 4 <= MaxOverlapTimers
  /\ LET stopped == stop(stop(Heap, mempoolMonitor), mempoolMonitor)
         Built(h, asset) ==
           IF asset \in Assets
             THEN LET built == [h EXCEPT !.monitors = Append(@, MempoolMonitorFree(asset))]
                  IN IF botIsRunning THEN start(built, Len(built.monitors)) ELSE built
             ELSE h
         after == Built(Built(stopped, first), second)
     IN /\ tokenTracker' = IF second \in Assets THEN second
                           ELSE IF first \in Assets THEN first ELSE tokenTracker
        /\ SetHeap(after)
        /\ lastChange' = (ChangeRecord(second, second \in Assets, stopped, after))
  /\ overlapped' = Overlap("changeToken")
  /\ UNCHANGED <<botIsRunning, poll, crossTalk, lateFires, queried>>
  /\ UNCHANGED <<execVars, rpcVars, monVars, sinkVars, calcVars>>

\* A monitor is stale once a monitor built after it has been started.
Stale(m) == \E n \in (m + 1)..Len(monitors) : monitors[n].everRan

\* The record of cross-talk (history) after monitor m has handed an event
\* to webServer.emitTransaction ("transaction", or "monitor" for a
\* heartbeat) or a buyInfo to onBuyDetected ("trigger").
Handed(m, kinds) ==
  IF Stale(m)
    THEN crossTalk \cup {[mon |-> m, asset |-> monitors[m].targetTokenAddress, kind |-> k] :
                          k \in kinds}
    ELSE crossTalk

botFrame == UNCHANGED <<botIsRunning, tokenTracker, lastChange, overlapped,
                        isRunning, pollingInterval, processedSignatures, tick,
                        buyThreshold, sellPercentage, head>>

\* A polling timer fires: the callback clears this.pollingInterval and
\* returns when the monitor is not running; otherwise it calls
\* checkRecentTransactions, which suspends in its provider query.
PollingTimerFires(x) ==
  /\ x \in timers
  /\ x.kind = "polling"
  /\ firesLeft > 0
  /\ firesLeft' = firesLeft - 1
  /\ IF ~monitors[x.mon].isRunning
       THEN /\ timers' = clearInterval(timers, monitors[x.mon].pollingInterval)
            /\ lateFires' = lateFires \cup {[mon |-> x.mon, kind |-> x.kind]}
            /\ UNCHANGED <<poll, queried>>
       ELSE /\ \E t \in BotTicks :
                 /\ poll[t].pc = "idle"
                 /\ \A u \in BotTicks : u < t => poll[u].pc # "idle"
                 /\ poll' = [poll EXCEPT ![t] = [pc |-> "query", mon |-> x.mon]]
            /\ queried' = queried \cup {x.mon}
            /\ UNCHANGED <<timers, lateFires>>
  /\ botFrame
  /\ UNCHANGED <<monitors, timersMade, crossTalk>>
  /\ UNCHANGED <<execVars, rpcVars, sinkVars, calcVars>>

\* A heartbeat timer fires: the callback emits a 'monitor' event when the
\* monitor is running.
HeartbeatFires(x) ==
  /\ x \in timers
  /\ x.kind = "heartbeat"
  /\ firesLeft > 0
  /\ firesLeft' = firesLeft - 1
  /\ IF monitors[x.mon].isRunning
       THEN /\ crossTalk' = Handed(x.mon, {"monitor"})
            /\ sinkTx' = sinkTx \cup {TxEvent(x.id, "monitor", 0)}
            /\ UNCHANGED lateFires
       ELSE /\ lateFires' = lateFires \cup {[mon |-> x.mon, kind |-> x.kind]}
            /\ UNCHANGED <<crossTalk, sinkTx>>
  /\ botFrame
  /\ UNCHANGED <<monitors, timers, timersMade, poll, queried>>
  /\ UNCHANGED <<sinkTxCount, classified, skips, requests, proceeded, balanceLog, sellLog,
                 sinkSell, sinkError>>
  /\ UNCHANGED <<execVars, rpcVars, calcVars>>

\* The provider answers a tick's query with one new transaction: the tick
\* emits it; for a buy at or above the thresholds it calls the handler,
\* which suspends in calculateSellAmount.
PollAnswered(t) ==
  /\ poll[t].pc = "query"
  /\ \E buy \in BOOLEAN :
       IF buy
         THEN /\ crossTalk' = Handed(poll[t].mon, {"transaction", "trigger"})
              /\ poll' = [poll EXCEPT ![t].pc = "h_balance"]
         ELSE /\ crossTalk' = Handed(poll[t].mon, {"transaction"})
              /\ poll' = [poll EXCEPT ![t] = NoPoll]
  /\ botFrame
  /\ UNCHANGED <<monitors, timers, timersMade, lateFires, queried, firesLeft>>
  /\ UNCHANGED <<execVars, rpcVars, sinkVars, calcVars>>

\* The provider answers a tick's query with nothing new, or fails: the
\* tick ends.
PollAnsweredNothing(t) ==
  /\ poll[t].pc = "query"
  /\ poll' = [poll EXCEPT ![t] = NoPoll]
  /\ botFrame
  /\ UNCHANGED <<monitors, timers, timersMade, crossTalk, lateFires, queried, firesLeft>>
  /\ UNCHANGED <<execVars, rpcVars, sinkVars, calcVars>>

\* handleBuyDetected after calculateSellAmount, for a sell amount above 0:
\* executeSell is called.
PollHandlerBalance(t) ==
  /\ poll[t].pc = "h_balance"
  /\ ExecuteSellEnter(t, Num(1))
  /\ poll' = [poll EXCEPT ![t].pc = "h_exec"]
  /\ botFrame
  /\ UNCHANGED <<monitors, timers, timersMade, crossTalk, lateFires, queried, firesLeft>>
  /\ UNCHANGED <<rpcVars, sinkVars, calcVars>>

\* handleBuyDetected when calculateSellAmount rejects or returns 0: the
\* handler returns and the tick ends.
PollHandlerNoSell(t) ==
  /\ poll[t].pc = "h_balance"
  /\ poll' = [poll EXCEPT ![t] = NoPoll]
  /\ botFrame
  /\ UNCHANGED <<monitors, timers, timersMade, crossTalk, lateFires, queried, firesLeft>>
  /\ UNCHANGED <<execVars, rpcVars, sinkVars, calcVars>>

\* An awaited step of the handler's executeSell call completes.
PollSellStep(t) ==
  /\ poll[t].pc = "h_exec"
  /\ \/ ExecuteSellDerived(t)
     \/ ExecuteSellBuilt(t)
     \/ ExecuteSellConfirmed(t)
     \/ ExecuteSellFail(t)
  /\ UNCHANGED <<monVars, rpcVars, sinkVars, calcVars, botVars>>

\* handleBuyDetected after executeSell: the handler returns and the tick
\* ends.
PollAfterSell(t) ==
  /\ poll[t].pc = "h_exec"
  /\ sell[t].pc = "returned"
  /\ sell' = [sell EXCEPT ![t] = NoCall]
  /\ poll' = [poll EXCEPT ![t] = NoPoll]
  /\ overlapped' = [overlapped EXCEPT ![t] = NoOverlap]
  /\ UNCHANGED <<botIsRunning, tokenTracker, lastChange, monitors, timers, timersMade,
                 crossTalk, lateFires, queried>>
  /\ UNCHANGED <<isExecuting, rpcVars, monVars, sinkVars, calcVars>>

(***************************************************************************)
(* The config object and SolanaBot.initialize                              *)
(***************************************************************************)
\* A JS Number as parseFloat returns it: NaN, or a whole number.
NaN == [nan |-> TRUE, value |-> 0]

Number(v) == [nan |-> FALSE, value |-> v]

\* x <= n and x > n on Numbers: both false when x is NaN.
AtMost(x, n) == ~x.nan /\ x.value <= n

Above(x, n) == ~x.nan /\ x.value > n

\* parseFloat(string), for the strings SELL_PERCENTAGE is set to here.
parseFloat(str) ==
  CASE str = "25"  -> Number(DefaultSellPercentage)
    [] str = "100" -> Number(100)
    [] str = "0"   -> Number(0)
    [] str = "101" -> Number(101)
    [] str = "-5"  -> Number(-5)
    [] OTHER       -> NaN

\* What the environment holds for SELL_PERCENTAGE ("" when unset), for
\* WALLET_PRIVATE_KEY ("" when unset) and for TARGET_TOKEN_ADDRESS (NoAsset
\* when unset).
EnvPercentages == {"", "25", "100", "0", "101", "-5", "abc"}

EnvKeys == {"", "key"}

EnvTargets == {NoAsset, 1, Malformed}

\* The config object built from the environment when the module loads.
Config(key, target, percentage) ==
  [walletPrivateKey   |-> key,
   targetTokenAddress |-> target,
   sellPercentage     |-> parseFloat(IF percentage = "" THEN "25" ELSE percentage)]

\* config.validate(): the errors it collects; it throws when there is one.
validate(c) ==
  (IF c.walletPrivateKey = "" THEN {"WALLET_PRIVATE_KEY is required"} ELSE {})
  \cup (IF c.targetTokenAddress = NoAsset THEN {"TARGET_TOKEN_ADDRESS is required"} ELSE {})
  \cup (IF AtMost(c.sellPercentage, 0) \/ Above(c.sellPercentage, 100)
          THEN {"SELL_PERCENTAGE must be between 0 and 100"} ELSE {})

\* SolanaBot.initialize(), called once by main: config.validate() throws on
\* an error, the monitor's and the token tracker's constructors throw on a
\* target that is no address, and main's catch exits the process;
\* otherwise the token tracker and the monitor are built.
BotInitialize ==
  /\ phase = "loaded"
  /\ IF validate(config) # {} \/ config.targetTokenAddress = Malformed
       THEN /\ phase' = "failed"
            /\ UNCHANGED <<tokenTracker, monitors>>
       ELSE /\ phase' = "initialized"
            /\ tokenTracker' = config.targetTokenAddress
            /\ monitors' = <<MempoolMonitorFree(config.targetTokenAddress)>>
  /\ UNCHANGED <<botIsRunning, timers, timersMade, poll, lastChange, crossTalk, lateFires,
                 queried, overlapped, config>>
  /\ UNCHANGED <<execVars, rpcVars, monVars, sinkVars, calcVars, tickVars>>

\* The ledger and the fault record of a run in which they play no part.
QuietLedger ==
  /\ ledger = SwapLedger
  /\ fault = NoFault

\* No bot: nothing is built.
NoBot ==
  /\ config = Config("key", 1, "")
  /\ phase = "loaded"
  /\ botIsRunning = FALSE
  /\ tokenTracker = NoAsset
  /\ monitors = <<>>
  /\ timers = {}
  /\ timersMade = 0
  /\ poll = [t \in BotTicks |-> NoPoll]
  /\ lastChange = NoChange
  /\ crossTalk = {}
  /\ lateFires = {}
  /\ queried = {}
  /\ overlapped = [c \in Tasks |-> NoOverlap]

(***************************************************************************)
(* Specification of one TradeExecutor called directly by concurrent        *)
(* callers.                                                                *)
(***************************************************************************)
Amounts == {Num(n) : n \in -1..MaxAmount}

\* No direct call of the token tracker.
NoCalc ==
  [pc |-> "idle", percentage |-> 0, account |-> "none", balance |-> Zero, result |-> Zero]

\* The monitor and the bot before anything is started.
MonitorIdle ==
  /\ isRunning = FALSE
  /\ pollingInterval = FALSE
  /\ processedSignatures = <<>>
  /\ tick = [t \in Ticks |-> NoTick]
  /\ buyThreshold = MonitorBuyFloor
  /\ sellPercentage = DefaultSellPercentage
  /\ head = 0
  /\ firesLeft = 0

SinkEmpty ==
  /\ sinkTx = {}
  /\ sinkTxCount = [s \in Sigs |-> 0]
  /\ classified = {}
  /\ skips = {}
  /\ requests = [s \in Sigs |-> 0]
  /\ proceeded = {}
  /\ balanceLog = [s \in Sigs |-> <<>>]
  /\ sellLog = [s \in Sigs |-> <<>>]
  /\ sinkSell = {}
  /\ sinkError = {}

InitExec ==
  TradeExecutorInit /\ RPCManagerInit /\ MonitorIdle /\ SinkEmpty /\ calc = NoCalc /\ NoBot /\ QuietLedger

NextExec ==
  /\ \/ \E c \in Tasks, a \in Amounts : ExecuteSellEnter(c, a)
     \/ \E c \in Tasks : ExecuteSellDerived(c)
     \/ \E c \in Tasks : ExecuteSellBuilt(c)
     \/ \E c \in Tasks : ExecuteSellConfirmed(c)
     \/ \E c \in Tasks : ExecuteSellFail(c)
     \/ \E c \in Tasks : ExecuteSellForget(c)
  /\ UNCHANGED <<rpcVars, monVars, sinkVars, calcVars, botVars, tickVars, bootVars>>

SpecExec == InitExec /\ [][NextExec]_vars

(***************************************************************************)
(* Specification of one RPCManager whose methods are called in any order   *)
(* while time passes.                                                      *)
(***************************************************************************)
InitRpc ==
  TradeExecutorInit /\ RPCManagerInit /\ MonitorIdle /\ SinkEmpty /\ calc = NoCalc /\ NoBot /\ QuietLedger

NextRpc ==
  /\ \/ getConnection
     \/ handleRateLimit
     \/ resetRateLimit
     \/ AdvanceClock
  /\ UNCHANGED <<execVars, monVars, sinkVars, calcVars, botVars, tickVars, bootVars>>

SpecRpc == InitRpc /\ [][NextRpc]_vars

(***************************************************************************)
(* Specification of the started bot: one running monitor polling, its      *)
(* ticks calling the buy handler, the handler calling the token tracker    *)
(* and the trade executor.                                                 *)
(***************************************************************************)
\* The RPCManager after the monitor's constructor has called getConnection.
RPCManagerAfterConstructor ==
  /\ currentRpcIndex = 1 % NumEndpoints
  /\ currentWssIndex = 1 % NumEndpoints
  /\ rateLimitCount = 0
  /\ rpcConnection = 1 % NumEndpoints
  /\ lastSwitchTime = StartTime
  /\ strikesAtSwitch = 0
  /\ now = StartTime

\* After bot.initialize() and bot.start(): isRunning and both timers set.
InitMon ==
  /\ TradeExecutorInit
  /\ RPCManagerAfterConstructor
  /\ SinkEmpty
  /\ isRunning = TRUE
  /\ pollingInterval = TRUE
  /\ processedSignatures = <<>>
  /\ tick = [t \in Ticks |-> NoTick]
  /\ buyThreshold \in Thresholds
  /\ sellPercentage \in SellPercentages
  /\ head = 0
  /\ firesLeft = MaxFires
  /\ calc = NoCalc
  /\ NoBot
  /\ QuietLedger

NextMon ==
  /\ \/ TimerFire
     \/ NewTransaction
     \/ \E t \in Ticks : BondingAnswered(t)
     \/ \E t \in Ticks : DirectAnswered(t)
     \/ \E t \in Ticks : ParseAnswered(t)
     \/ \E t \in Ticks : ParseRateLimited(t)
     \/ \E t \in Ticks : ParseFailed(t)
     \/ \E t \in Ticks : ParseUnreachable(t)
     \/ \E t \in Ticks : BasicAnswered(t)
     \/ \E t \in Ticks : TickLoop(t)
     \/ \E t \in Ticks : HandlerBalance(t)
     \/ \E t \in Ticks : HandlerSellStep(t)
     \/ \E t \in Ticks : HandlerAfterSell(t)
     \/ \E t \in Ticks : HandlerNewBalance(t)
  /\ UNCHANGED <<calcVars, botVars, tickVars, bootVars>>

SpecMon == InitMon /\ [][NextMon]_vars

(***************************************************************************)
(* Specification of one TokenTracker whose calculateSellAmount is called   *)
(* directly, for any balance of the holder's account.                      *)
(***************************************************************************)
\* How far above each anchor the account's amount ranges.
MaxOffset == 7

\* Amounts around which calculateSellAmount is exercised: 0, 997,
\* 90,981,810,653,998 and 333,599,972,397,834 base units.
AmountAnchors == {Zero, Num(997), <<84782, 783784, 82>>, <<660234, 427197, 303>>}

CalcAmounts == {Plus(base, d) : base \in AmountAnchors, d \in 0..MaxOffset}

\* Values of SELL_PERCENTAGE a direct caller passes.
Percentages == {1, DefaultSellPercentage, 27, 99, 100}

\* calculateSellAmount(percentage) is called and suspends in getBalance
\* (getAccount).
CalculateSellAmountCalled ==
  /\ calc.pc = "idle"
  /\ \E p \in Percentages : calc' = [NoCalc EXCEPT !.pc = "getBalance", !.percentage = p]

\* getAccount answers: getBalance returns the balance, or rethrows; with the
\* balance calculateSellAmount returns the amount.
GetAccountAnswers ==
  /\ calc.pc = "getBalance"
  /\ \E answer \in {AccountWith(a) : a \in CalcAmounts} \cup {AccountNotFound, AccountError} :
       calc' = IF getBalanceRejects(answer)
                 THEN [calc EXCEPT !.pc = "rejected", !.account = answer.kind]
                 ELSE [calc EXCEPT !.pc = "returned",
                                   !.account = answer.kind,
                                   !.balance = getBalance(answer),
                                   !.result = calculateSellAmount(getBalance(answer),
                                                                  calc.percentage)]

\* The caller has consumed the outcome; it may call again.
CalculateSellAmountForget ==
  /\ calc.pc \in {"returned", "rejected"}
  /\ calc' = NoCalc

InitCalc ==
  TradeExecutorInit /\ RPCManagerInit /\ MonitorIdle /\ SinkEmpty /\ calc = NoCalc /\ NoBot /\ QuietLedger

NextCalc ==
  /\ \/ CalculateSellAmountCalled
     \/ GetAccountAnswers
     \/ CalculateSellAmountForget
  /\ UNCHANGED <<execVars, rpcVars, monVars, sinkVars, botVars, tickVars, bootVars>>

SpecCalc == InitCalc /\ [][NextCalc]_vars

(***************************************************************************)
(* Specification of the bot's life: after initialize, start, stop and      *)
(* changeToken are called in any order while the monitors' timers fire and *)
(* their ticks and sells are in flight.                                    *)
(***************************************************************************)
\* After bot.initialize(), which config.validate() lets pass only with a
\* target address: one monitor built; nothing started.
InitBot ==
  /\ TradeExecutorInit
  /\ RPCManagerAfterConstructor
  /\ SinkEmpty
  /\ isRunning = FALSE
  /\ pollingInterval = FALSE
  /\ processedSignatures = <<>>
  /\ tick = [t \in Ticks |-> NoTick]
  /\ buyThreshold = MonitorBuyFloor
  /\ sellPercentage = DefaultSellPercentage
  /\ head = 0
  /\ firesLeft = MaxBotFires
  /\ calc = NoCalc
  /\ QuietLedger
  /\ config = Config("key", 1, "")
  /\ phase = "initialized"
  /\ botIsRunning = FALSE
  /\ tokenTracker = config.targetTokenAddress
  /\ monitors = <<MempoolMonitorFree(config.targetTokenAddress)>>
  /\ timers = {}
  /\ timersMade = 0
  /\ poll = [t \in BotTicks |-> NoPoll]
  /\ lastChange = NoChange
  /\ crossTalk = {}
  /\ lateFires = {}
  /\ queried = {}
  /\ overlapped = [c \in Tasks |-> NoOverlap]

NextBot ==
  /\ \/ BotStart
     \/ BotStop
     \/ \E asset \in Assets \cup {Malformed} : changeToken(asset)
     \/ \E x \in timers : PollingTimerFires(x)
     \/ \E x \in timers : HeartbeatFires(x)
     \/ \E t \in BotTicks : PollAnswered(t)
     \/ \E t \in BotTicks : PollAnsweredNothing(t)
     \/ \E t \in BotTicks : PollHandlerBalance(t)
     \/ \E t \in BotTicks : PollHandlerNoSell(t)
     \/ \E t \in BotTicks : PollSellStep(t)
     \/ \E t \in BotTicks : PollAfterSell(t)
  /\ UNCHANGED <<tickVars, bootVars>>

SpecBot == InitBot /\ [][NextBot]_vars

\* index.js, the SIGINT and SIGTERM handlers: await bot.stop(), which
\* returns at once when the bot is not running and otherwise stops the
\* monitor the bot references, then process.exit(0).
Shutdown ==
  /\ phase = "initialized"
  /\ phase' = "exited"
  /\ IF botIsRunning
       THEN /\ SetHeap(stop(Heap, mempoolMonitor))
            /\ botIsRunning' = FALSE
            /\ overlapped' = Overlap("stop")
       ELSE UNCHANGED <<monitors, timers, timersMade, botIsRunning, overlapped>>
  /\ UNCHANGED <<tokenTracker, poll, lastChange, crossTalk, lateFires, queried, config>>
  /\ UNCHANGED <<execVars, rpcVars, monVars, sinkVars, calcVars, tickVars>>

\* The bot with its change-token handlers also dispatched two in a turn,
\* until a shutdown signal ends the process.
NextChange ==
  \/ /\ phase = "initialized"
     /\ NextBot
  \/ /\ phase = "initialized"
     /\ \E first, second \in Assets \cup {Malformed} : changeTokenOverlapped(first, second)
     /\ UNCHANGED <<tickVars, bootVars>>
  \/ Shutdown

SpecChange == InitBot /\ [][NextChange]_vars

(***************************************************************************)
(* Specification of one MempoolMonitorFree used by a caller of the class:  *)
(* built with or without an address, its start() and stop() called in any  *)
(* order while its timers fire and its ticks and sells are in flight.      *)
(***************************************************************************)
\* start(onBuyDetected) is called on monitor m.
MonitorStartCalled(m) ==
  /\ StartFits
  /\ SetHeap(start(Heap, m))
  /\ UNCHANGED <<botIsRunning, tokenTracker, poll, lastChange, crossTalk, lateFires, queried,
                 overlapped>>
  /\ UNCHANGED <<execVars, rpcVars, monVars, sinkVars, calcVars>>

\* stop() is called on monitor m.
MonitorStopCalled(m) ==
  /\ SetHeap(stop(Heap, m))
  /\ overlapped' = Overlap("stop")
  /\ UNCHANGED <<botIsRunning, tokenTracker, poll, lastChange, crossTalk, lateFires, queried>>
  /\ UNCHANGED <<execVars, rpcVars, monVars, sinkVars, calcVars>>

InitMonitorCalls ==
  /\ TradeExecutorInit
  /\ RPCManagerAfterConstructor
  /\ SinkEmpty
  /\ isRunning = FALSE
  /\ pollingInterval = FALSE
  /\ processedSignatures = <<>>
  /\ tick = [t \in Ticks |-> NoTick]
  /\ buyThreshold = MonitorBuyFloor
  /\ sellPercentage = DefaultSellPercentage
  /\ head = 0
  /\ firesLeft = MaxBotFires
  /\ calc = NoCalc
  /\ QuietLedger
  /\ config = Config("key", 1, "")
  /\ phase = "loaded"
  /\ botIsRunning = FALSE
  /\ tokenTracker = NoAsset
  /\ \E asset \in {NoAsset, 1} : monitors = <<MempoolMonitorFree(asset)>>
  /\ timers = {}
  /\ timersMade = 0
  /\ poll = [t \in BotTicks |-> NoPoll]
  /\ lastChange = NoChange
  /\ crossTalk = {}
  /\ lateFires = {}
  /\ queried = {}
  /\ overlapped = [c \in Tasks |-> NoOverlap]

NextMonitorCalls ==
  /\ \/ \E m \in 1..Len(monitors) : MonitorStartCalled(m)
     \/ \E m \in 1..Len(monitors) : MonitorStopCalled(m)
     \/ \E x \in timers : PollingTimerFires(x)
     \/ \E x \in timers : HeartbeatFires(x)
     \/ \E t \in BotTicks : PollAnswered(t)
     \/ \E t \in BotTicks : PollAnsweredNothing(t)
     \/ \E t \in BotTicks : PollHandlerBalance(t)
     \/ \E t \in BotTicks : PollHandlerNoSell(t)
     \/ \E t \in BotTicks : PollSellStep(t)
     \/ \E t \in BotTicks : PollAfterSell(t)
  /\ UNCHANGED <<tickVars, bootVars>>

SpecMonitorCalls == InitMonitorCalls /\ [][NextMonitorCalls]_vars

(***************************************************************************)
(* Specification of the process from its launch: the config object built   *)
(* from the environment, initialize() called once, then the bot started,   *)
(* stopped and given other assets while its timers fire.                   *)
(***************************************************************************)
InitBoot ==
  /\ TradeExecutorInit
  /\ RPCManagerAfterConstructor
  /\ SinkEmpty
  /\ isRunning = FALSE
  /\ pollingInterval = FALSE
  /\ processedSignatures = <<>>
  /\ tick = [t \in Ticks |-> NoTick]
  /\ buyThreshold = MonitorBuyFloor
  /\ sellPercentage = DefaultSellPercentage
  /\ head = 0
  /\ firesLeft = MaxBotFires
  /\ calc = NoCalc
  /\ QuietLedger
  /\ \E key \in EnvKeys, target \in EnvTargets, percentage \in EnvPercentages :
       config = Config(key, target, percentage)
  /\ phase = "loaded"
  /\ botIsRunning = FALSE
  /\ tokenTracker = NoAsset
  /\ monitors = <<>>
  /\ timers = {}
  /\ timersMade = 0
  /\ poll = [t \in BotTicks |-> NoPoll]
  /\ lastChange = NoChange
  /\ crossTalk = {}
  /\ lateFires = {}
  /\ queried = {}
  /\ overlapped = [c \in Tasks |-> NoOverlap]

NextBoot ==
  /\ \/ BotInitialize
     \/ /\ phase = "initialized"
        /\ \/ BotStart
           \/ BotStop
           \/ \E asset \in Assets \cup {Malformed} : changeToken(asset)
           \/ \E x \in timers : PollingTimerFires(x)
           \/ \E x \in timers : HeartbeatFires(x)
           \/ \E t \in BotTicks : PollAnsweredNothing(t)
        /\ UNCHANGED bootVars
  /\ UNCHANGED tickVars

SpecBoot == InitBoot /\ [][NextBoot]_vars

(***************************************************************************)
(* Specification of the polling monitor with the failures of its external  *)
(* calls told apart, over a ledger of mixed transactions, its stop() and   *)
(* start() called in any order.                                            *)
(***************************************************************************)
InitTick ==
  /\ TradeExecutorInit
  /\ RPCManagerAfterConstructor
  /\ SinkEmpty
  /\ isRunning = TRUE
  /\ pollingInterval = TRUE
  /\ processedSignatures = <<>>
  /\ tick = [t \in Ticks |-> NoTick]
  /\ buyThreshold = MonitorBuyFloor
  /\ sellPercentage = DefaultSellPercentage
  /\ head = 0
  /\ firesLeft = MaxFires
  /\ calc = NoCalc
  /\ NoBot
  /\ ledger \in {MixedLedger, DustLedger}
  /\ fault = NoFault

NextTick ==
  /\ \/ /\ \/ TimerFire
           \/ NewTransaction
           \/ \E t \in Ticks : BondingAnswered(t)
           \/ \E t \in Ticks : DirectAnswered(t)
           \/ \E t \in Ticks : ParseAnswered(t)
           \/ \E t \in Ticks : BasicAnswered(t)
           \/ \E t \in Ticks : TickLoop(t)
           \/ \E t \in Ticks : HandlerSellStep(t)
        /\ fault' = NoFault
     \/ \E t \in Ticks : BondingFails(t)
     \/ \E t \in Ticks : DirectFails(t)
     \/ \E t \in Ticks : BasicFails(t)
     \/ \E t \in Ticks : ParseRateLimitedNoted(t)
     \/ \E t \in Ticks : ParseFailedNoted(t)
     \/ \E t \in Ticks : ParseUnreachableNoted(t)
     \/ \E t \in Ticks : HandlerNoted(t, HandlerBalance(t))
     \/ \E t \in Ticks : HandlerNoted(t, HandlerAfterSell(t))
     \/ \E t \in Ticks : HandlerNoted(t, HandlerNewBalance(t))
  /\ UNCHANGED <<ledger, calcVars, botVars, bootVars>>

SpecTick == InitTick /\ [][NextTick]_vars

(***************************************************************************)
(* Specification of the polling monitor stopped and started again while it *)
(* polls a ledger of mixed transactions.                                   *)
(***************************************************************************)
\* After start(): isRunning set and the polling timer set once.
InitRestart ==
  /\ TradeExecutorInit
  /\ RPCManagerAfterConstructor
  /\ SinkEmpty
  /\ isRunning = TRUE
  /\ pollingInterval = TRUE
  /\ processedSignatures = <<>>
  /\ tick = [t \in Ticks |-> NoTick]
  /\ buyThreshold = MonitorBuyFloor
  /\ sellPercentage = DefaultSellPercentage
  /\ head = 0
  /\ firesLeft = MaxFires
  /\ calc = NoCalc
  /\ ledger = MixedLedger
  /\ fault = NoFault
  /\ config = Config("key", 1, "")
  /\ phase = "initialized"
  /\ botIsRunning = FALSE
  /\ tokenTracker = NoAsset
  /\ monitors = <<>>
  /\ timers = {}
  /\ timersMade = 1
  /\ poll = [t \in BotTicks |-> NoPoll]
  /\ lastChange = NoChange
  /\ crossTalk = {}
  /\ lateFires = {}
  /\ queried = {}
  /\ overlapped = [c \in Tasks |-> NoOverlap]

NextRestart ==
  \/ NextMon
  \/ MonitorStop
  \/ MonitorStart

SpecRestart == InitRestart /\ [][NextRestart]_vars

(***************************************************************************)
(* The claims                                                              *)
(***************************************************************************)

\* C1: at most one executeSell call is past the guard at any time; a call
\* issued while another was pending has returned null, was never built or
\* submitted, and stays returned (it is not queued).
C1_SingleFlight ==
  /\ Cardinality(InFlight) <= 1
  /\ \A c \in Tasks :
       sell[c].busyAtEntry =>
         /\ sell[c].pc = "returned"
         /\ sell[c].result = NullResult
         /\ ~sell[c].built

\* A call was rejected while the call that holds the guard is still being
\* submitted.
C1_Witness ==
  \E c, d \in Tasks :
    /\ c # d
    /\ sell[c].busyAtEntry
    /\ IsPositive(sell[c].amount)
    /\ sell[d].pc = "send"

\* C2: whenever a call that set the guard resolves, with a result or with
\* null after a failed step, isExecuting is false in the resulting state;
\* and a call with a positive amount is rejected only while another call is
\* in flight.
C2_GuardReleased ==
  [][ /\ \A c \in Tasks :
           (sell[c].pc \in InFlightPcs /\ sell'[c].pc = "returned")
             => /\ isExecuting' = FALSE
                /\ sell'[c].result.kind \in {"null", "result"}
      /\ \A c \in Tasks :
           (sell[c].pc = "idle" /\ sell'[c].pc = "returned" /\ IsPositive(sell'[c].amount))
             => InFlight # {}
    ]_vars

\* One call failed in submission, another succeeded, and a third has since
\* passed the guard.
C2_Witness ==
  \E c, d, e \in Tasks :
    /\ sell[c].pc = "returned" /\ sell[c].failedAt = "send"
    /\ sell[d].pc = "returned" /\ sell[d].result.kind = "result"
    /\ sell[e].pc = "derive"

\* C3: for every signature at most one transaction event reaches the sink.
C3_NoDuplicateEvent ==
  \A s \in Sigs : sinkTxCount[s] <= 1

\* A signature that was emitted has been returned again and skipped.
C3_Witness ==
  \E s \in skips : sinkTxCount[s] = 1

\* C4: the processed-signature set never holds more than
\* maxProcessedSignatures entries.
C4_SeenSetCapped ==
  Len(processedSignatures) <= maxProcessedSignatures

\* C5: the endpoint index changes only in a step in which switchToNextRPC
\* ran with rateLimitCount >= 3 and more than the cooldown after the last
\* switch.
C5_RotationOnlyWhenDue ==
  [][ currentRpcIndex' # currentRpcIndex
        => /\ strikesAtSwitch' >= maxRateLimitCount
           /\ (now - lastSwitchTime) > switchCooldown
    ]_vars

\* C6: every transaction classified as a buy with a value at or above the
\* configured threshold has a buyInfo built and its handler invocation past
\* the threshold check.
C6_BuyAtThresholdTriggers ==
  \A s \in classified :
    LET info == parseHeliusTransaction(s) IN
    (info.transactionType = "buy" /\ info.solAmount >= buyThreshold)
      => (requests[s] >= 1 /\ s \in proceeded)

\* C7: a transaction classified as a buy with a value below the configured
\* threshold has no buyInfo built and no executeSell call, and its event in
\* the sink is a buy with that value.
C7_BuyBelowThresholdIgnored ==
  \A s \in classified :
    LET info == parseHeliusTransaction(s) IN
    (info.transactionType = "buy" /\ info.solAmount < buyThreshold)
      => /\ requests[s] = 0
         /\ sellLog[s] = <<>>
         /\ TxEvent(s, "buy", info.solAmount) \in sinkTx

\* floor(B*P/100), exactly.
FloorPercent(B, P) == DivMod100(Times(B, P)).quot

C9_SellAmountIsFloor ==
  calc.pc = "returned" =>
    /\ calc.result = FloorPercent(calc.balance, calc.percentage)
    /\ calc.balance = Zero => calc.result = Zero

\* What does hold of calculateSellAmount: the result is floor(B*P/100)
\* whenever B*P has at most 53 bits, never differs from it by more than
\* one, and is 0 for B = 0.
SellAmountIsFloorUpTo53Bits ==
  calc.pc = "returned" =>
    LET exact == FloorPercent(calc.balance, calc.percentage) IN
    /\ BitLength(Times(calc.balance, calc.percentage)) <= DoublePrecision
         => calc.result = exact
    /\ calc.result \in {exact, Plus(exact, 1)}
    /\ calc.balance = Zero => calc.result = Zero

\* C10: a call with amount <= 0 returns null in the step that issues it,
\* builds nothing and leaves isExecuting as it was.
C10_NonPositiveAmountRejected ==
  [][ \A c \in Tasks :
        (sell[c].pc = "idle" /\ sell'[c].pc # "idle" /\ ~IsPositive(sell'[c].amount))
          => /\ sell'[c].pc = "returned"
             /\ sell'[c].result = NullResult
             /\ ~sell'[c].built
             /\ isExecuting' = isExecuting
    ]_vars

\* A call with a non-positive amount was made while no call was in flight
\* and has returned null, the guard still clear.
C10_Witness ==
  \E c \in Tasks :
    /\ sell[c].pc = "returned"
    /\ ~IsPositive(sell[c].amount)
    /\ ~sell[c].busyAtEntry
    /\ sell[c].result = NullResult
    /\ ~isExecuting

\* C11: a call of executeSell is only ever not made, suspended in one of its
\* three awaited steps, or returned (it never rejects); and a call one of
\* whose steps failed has returned null.
C11_FailuresReturned ==
  \A c \in Tasks :
    /\ sell[c].pc \in {"idle", "returned"} \cup InFlightPcs
    /\ sell[c].failedAt # "" => (sell[c].pc = "returned" /\ sell[c].result = NullResult)

\* Three calls have failed, one in each awaited step: account derivation,
\* transaction build, submission and confirmation.
C11_Witness ==
  \E c, d, e \in Tasks :
    /\ sell[c].failedAt = "derive"
    /\ sell[d].failedAt = "build"
    /\ sell[e].failedAt = "send"

\* C12: no error notice reaches the sink for a sell request that executeSell
\* dropped because another sell was in flight.
C12_DroppedSellSilent ==
  \A e \in sinkError : e.cause # "dropped"

\* C13: a changeToken call that returns has stopped the monitor it found,
\* bound the token tracker and a newly built monitor to the new asset, and
\* left the new monitor running exactly when the bot was running at the
\* call; the tracker and the bot's monitor stay bound to that asset.
C13_ChangeTokenRebuilds ==
  lastChange.returned =>
    /\ lastChange.oldStopped
    /\ lastChange.tracker = lastChange.asset
    /\ lastChange.newMonitor = lastChange.oldMonitor + 1
    /\ lastChange.newAsset = lastChange.asset
    /\ lastChange.newIsRunning = lastChange.wasRunning
    /\ tokenTracker = lastChange.asset
    /\ mempoolMonitor = lastChange.newMonitor
    /\ monitors[mempoolMonitor].targetTokenAddress = lastChange.asset

\* changeToken has returned in a running bot whose old monitor had been
\* running on another asset: the old one is stopped, the new one runs.
C13_Witness ==
  /\ lastChange.returned
  /\ lastChange.wasRunning
  /\ lastChange.newIsRunning
  /\ monitors[lastChange.oldMonitor].everRan
  /\ monitors[lastChange.oldMonitor].targetTokenAddress # lastChange.asset

\* C14: when changeToken starts the new monitor no timer of the old one is
\* left, and from then on nothing the old monitor produces (a transaction
\* event, a heartbeat, a buy trigger) reaches the web server or the buy
\* handler.
C14_NoCrossTalk ==
  /\ lastChange.returned => lastChange.oldTimers = {}
  /\ crossTalk = {}

\* C15: a sell that was in flight when changeToken ran keeps its amount and
\* the guard while it is in flight, resolves to its own result or to null,
\* and leaves the guard released once no call is in flight; changeToken has
\* completed meanwhile.
C15_SellSurvivesChangeToken ==
  \A c \in Tasks :
    overlapped[c].by = "changeToken" =>
      /\ lastChange # NoChange
      /\ sell[c].pc \in InFlightPcs \cup {"returned"}
      /\ sell[c].amount = overlapped[c].call.amount
      /\ sell[c].pc \in InFlightPcs => isExecuting
      /\ sell[c].pc = "returned" =>
            /\ sell[c].result \in {SellResult(sell[c].amount), NullResult}
            /\ sell[c].result = NullResult <=> sell[c].failedAt # ""
            /\ InFlight = {} => ~isExecuting

\* A sell that was awaiting its confirmation when changeToken ran has
\* returned its result, and the new monitor runs.
C15_Witness ==
  \E c \in Tasks :
    /\ overlapped[c].by = "changeToken"
    /\ overlapped[c].call.pc = "send"
    /\ sell[c].pc = "returned"
    /\ sell[c].result = SellResult(sell[c].amount)
    /\ lastChange.returned
    /\ lastChange.newIsRunning

\* C16: a monitor built without an address is never running, holds no
\* timer handle, has no timer in the event loop and has made no provider
\* call, whether or not start() was called on it.
C16_NoAssetParksIdle ==
  \A m \in 1..Len(monitors) :
    monitors[m].targetTokenAddress = NoAsset =>
      /\ ~monitors[m].isRunning
      /\ ~monitors[m].everRan
      /\ monitors[m].pollingInterval = NoTimer
      /\ monitors[m].heartbeatInterval = NoTimer
      /\ \A x \in timers : x.mon # m
      /\ m \notin queried
      /\ \A t \in BotTicks : poll[t].mon # m

\* start() was called on a monitor built without an address.
C16_Witness ==
  \E m \in 1..Len(monitors) :
    /\ monitors[m].targetTokenAddress = NoAsset
    /\ monitors[m].startCalled

\* C17: a monitor that ran and is stopped holds no timer handle and has no
\* timer in the event loop, no timer callback runs for a monitor that is
\* not running, and a sell that was in flight when stop ran keeps its
\* amount and the guard and resolves to its own result or to null.
C17_StopCancelsTimers ==
  /\ \A m \in 1..Len(monitors) :
       (monitors[m].everRan /\ ~monitors[m].isRunning) =>
         /\ monitors[m].pollingInterval = NoTimer
         /\ monitors[m].heartbeatInterval = NoTimer
         /\ \A x \in timers : x.mon # m
  /\ lateFires = {}
  /\ \A c \in Tasks :
       overlapped[c].by = "stop" =>
         /\ sell[c].pc \in InFlightPcs \cup {"returned"}
         /\ sell[c].amount = overlapped[c].call.amount
         /\ sell[c].pc \in InFlightPcs => isExecuting
         /\ sell[c].pc = "returned" =>
               sell[c].result \in {SellResult(sell[c].amount), NullResult}

\* The bot's stop() has stopped a monitor whose timers had fired, while a
\* sell was in flight, and the sell has returned its result since.
C17_Witness ==
  /\ ~botIsRunning
  /\ monitors[mempoolMonitor].everRan
  /\ ~monitors[mempoolMonitor].isRunning
  /\ mempoolMonitor \in queried
  /\ \E c \in Tasks :
       /\ overlapped[c].by = "stop"
       /\ sell[c].pc = "returned"
       /\ sell[c].result = SellResult(sell[c].amount)

\* C18: the endpoint indexes are positions of the lists in every state, and
\* every step that builds a new connection moves the index from i to
\* (i + 1) mod n, sets rateLimitCount to 0 and lastSwitchTime to the
\* current time.
C18_SwitchAdvancesAndResets ==
  /\ [](/\ currentRpcIndex \in 0..(NumEndpoints - 1)
        /\ currentWssIndex \in 0..(NumEndpoints - 1))
  /\ [][ rpcConnection' # rpcConnection
           => /\ currentRpcIndex' = (currentRpcIndex + 1) % NumEndpoints
              /\ rpcConnection' = currentRpcIndex'
              /\ rateLimitCount' = 0
              /\ lastSwitchTime' = now
       ]_vars

\* A switch made after rate-limit failures has just wrapped from the last
\* endpoint to the first.
C18_Witness ==
  /\ currentRpcIndex = 0
  /\ rpcConnection = 0
  /\ strikesAtSwitch >= maxRateLimitCount
  /\ rateLimitCount = 0
  /\ lastSwitchTime = now

\* C19: a provider call of a polling tick that succeeds (the bonding-curve
\* query answers with signatures, or the parsing service answers) lowers
\* rateLimitCount by one when it is positive and leaves it at 0 otherwise.
C19_SuccessLowersCount ==
  [][ (\E t \in Ticks :
         \/ tick[t].pc = "bonding" /\ tick'[t].pc = "parse"
         \/ tick[t].pc = "parse" /\ tick'[t].pc = "loop")
        => rateLimitCount' = (IF rateLimitCount > 0 THEN rateLimitCount - 1 ELSE 0)
    ]_vars

\* C20: within the cooldown after a switch no step changes the endpoint,
\* however many failures are recorded; once the cooldown has elapsed with
\* three or more failures counted, a failure recorded then does not just
\* count, and the endpoint only ever changes to the next in list order with
\* the count reset.
C20_RotationWaitsForCooldown ==
  [][ /\ (rpcConnection # NoConnection /\ (now - lastSwitchTime) <= switchCooldown)
           => currentRpcIndex' = currentRpcIndex
      /\ (rateLimitCount >= maxRateLimitCount /\ (now - lastSwitchTime) > switchCooldown)
           => rateLimitCount' # rateLimitCount + 1
      /\ currentRpcIndex' # currentRpcIndex
           => /\ currentRpcIndex' = (currentRpcIndex + 1) % NumEndpoints
              /\ rateLimitCount' = 0
    ]_vars

\* The third failure was counted inside the cooldown without a switch and
\* the fourth, after the cooldown, has just rotated from the last endpoint
\* to the first.
C20_Witness ==
  /\ strikesAtSwitch = maxRateLimitCount + 1
  /\ currentRpcIndex = 0
  /\ rateLimitCount = 0
  /\ lastSwitchTime = now
  /\ now >= StartTime + 2 * (switchCooldown + PollingPeriod)

ZeroDisposal(answer) ==
  \/ answer.kind = "notfound"
  \/ /\ answer.kind = "account"
     /\ FloorPercent(ToDouble(answer.amount), sellPercentage) = Zero

\* C27: a buy that passed the threshold and whose handler computed a
\* disposal amount of 0 (each time it was handled) has had no executeSell
\* call and no sell result, has no error notice in the sink, and its
\* handler is not left inside a sell: it returned to the tick's loop.
C27_ZeroAmountIsSilent ==
  \A s \in Sigs :
    (/\ balanceLog[s] # <<>>
     /\ \A j \in 1..Len(balanceLog[s]) : ZeroDisposal(balanceLog[s][j]))
    => /\ sellLog[s] = <<>>
       /\ \A r \in sinkSell : r.trigger # s
       /\ \A e \in sinkError : e.trigger # s
       /\ \A t \in Ticks : tick[t].buy = s => tick[t].pc = "h_balance"

\* A buy above the threshold handled with balance 0, its tick over, while
\* another buy of the same run was sold.
C27_Witness ==
  \E s \in Sigs :
    /\ s \in proceeded
    /\ balanceLog[s] = <<AccountWith(Zero)>>
    /\ \A t \in Ticks : tick[t].buy # s
    /\ \E r \in sinkSell : r.trigger # s

\* C25: whenever a buy handler is awaiting its sell, the polling timer's
\* callback can run and start the next tick (the timer being set and a
\* callback and a task being left within the bounds): the pending handler
\* does not hold it back.
C25_HandlerDoesNotDelayTick ==
  (/\ \E h \in Ticks : tick[h].pc = "h_exec"
   /\ isRunning /\ pollingInterval /\ firesLeft > 0
   /\ \E t \in Ticks : tick[t].pc = "idle")
  => ENABLED TimerFire

\* One tick's handler is still inside executeSell while a later tick has
\* fetched a transaction the first never saw and classified it.
C25_Witness ==
  \E h, t \in Ticks :
    /\ tick[h].pc = "h_exec"
    /\ sell[h].pc # "returned"
    /\ tick[t].pc = "loop"
    /\ \E j \in 1..Len(tick[t].parsed) :
         /\ j < tick[t].i
         /\ tick[t].parsed[j] \in classified
         /\ tick[t].parsed[j] > tick[h].buy
         /\ \A k \in 1..Len(tick[h].sigs) : tick[h].sigs[k] # tick[t].parsed[j]

\* C21: a provider call of a tick that has just failed with 429, whichever
\* call it is, has had handleRateLimit invoked once for it: the count is one
\* higher, or the rotation it made due has run (count 0, entered with one
\* more, the live connection being the new endpoint's).
C21_RateLimitAlwaysHandled ==
  (fault.error = "429" /\ fault.call # "handler") =>
    \/ rateLimitCount = fault.count + 1
    \/ /\ rateLimitCount = 0
       /\ strikesAtSwitch = fault.count + 1
       /\ rpcConnection = currentRpcIndex

\* C22: a tick whose call to the parsing service has just failed, by a
\* fetch that rejected, a body that could not be read or an error status
\* other than 429, is in the fallback (checkRecentTransactionsBasic).
C22_ParseFailureFallsBack ==
  (fault.call = "parse" /\ fault.error # "429") => tick[fault.task].pc = "basic"

\* C23: when a tick has just ended on a failed call to the parsing service,
\* the signatures the provider had returned to it are in processedSignatures.
C23_UnparsedStillProcessed ==
  (fault.call = "parse" /\ tick[fault.task].pc = "idle") =>
    \A j \in 1..Len(fault.sigs) : fault.sigs[j] \in Processed

\* C24: no tick is ever left rejected, and the step in which an external
\* call fails (provider, parsing service, balance query, sell) leaves the
\* monitor running with its polling timer set, the tick either over or
\* going on.
C24_NoUnhandledRejection ==
  /\ \A t \in Ticks : tick[t].pc # "rejected"
  /\ fault # NoFault =>
       /\ isRunning = fault.running
       /\ pollingInterval = fault.polling
       /\ tick[fault.task].pc \in {"idle", "direct", "basic", "loop"}

\* After a tick that ended on a 429 of the parsing service, the sell of a
\* later tick's handler fails: the monitor still polls and the tick is back
\* in its loop.
C24_Witness ==
  /\ fault.call = "handler"
  /\ rateLimitCount > 0
  /\ \E e \in sinkError : e.cause = "failed"
  /\ isRunning /\ pollingInterval
  /\ tick[fault.task].pc = "loop"

\* C26: over ticks, stops and starts, every signature has had at most one
\* buyInfo built for it and at most one executeSell call.
C26_AtMostOneReaction ==
  \A s \in Sigs : requests[s] <= 1 /\ Len(sellLog[s]) <= 1

C30_InvalidConfigNeverRuns ==
  (\/ config.walletPrivateKey = ""
   \/ config.targetTokenAddress = NoAsset
   \/ ~(Above(config.sellPercentage, 0) /\ AtMost(config.sellPercentage, 100)))
  => (phase # "initialized" /\ ~botIsRunning)

\* C39: the first connection a new RPCManager hands out is to endpoint 0,
\* and every later change of connection goes to the next endpoint of the
\* list, wrapping at its end.
C39_FirstEndpointFirst ==
  [][rpcConnection' # rpcConnection =>
       IF rpcConnection = NoConnection
         THEN rpcConnection' = 0
         ELSE rpcConnection' = (rpcConnection + 1) % NumEndpoints]_vars

\* C38: whatever start and stop calls were made, the event loop holds at most
\* one polling timer and at most one heartbeat timer of a monitor, and those
\* of a running monitor are the ones its handles name.
C38_OneTimerOfEachKind ==
  \A m \in 1..Len(monitors) :
    /\ \A x, y \in timers : (x.mon = m /\ y.mon = m /\ x.kind = y.kind) => x = y
    /\ monitors[m].isRunning =>
         \A x \in timers : x.mon = m =>
           x.id \in {monitors[m].pollingInterval, monitors[m].heartbeatInterval}

\* A monitor started, stopped and started again is running with its second
\* pair of timers, one of which has fired.
C38_Witness ==
  \E m \in 1..Len(monitors) :
    /\ monitors[m].isRunning
    /\ timersMade >= 4
    /\ \E x \in timers : x.mon = m /\ x.kind = "polling"
    /\ \E x \in timers : x.mon = m /\ x.kind = "heartbeat"
    /\ \E t \in BotTicks : poll[t].mon = m /\ poll[t].pc # "idle"

\* C33: a running monitor's heartbeat timer can fire whatever its polling
\* ticks are doing (the callback waits for no tick, blocked or not); every
\* heartbeat notice in the sink was emitted by a heartbeat timer of a monitor
\* that has been started; a stopped monitor holds no heartbeat timer and no
\* heartbeat callback ever ran on a stopped monitor.
C33_HeartbeatIndependentOfTicks ==
  /\ \A x \in timers :
       (x.kind = "heartbeat" /\ monitors[x.mon].isRunning /\ firesLeft > 0)
         => ENABLED HeartbeatFires(x)
  /\ \A e \in sinkTx :
       e.transactionType = "monitor" =>
         /\ e.signature \in 1..timersMade
         /\ \E m \in 1..Len(monitors) : monitors[m].everRan
  /\ \A m \in 1..Len(monitors) :
       ~monitors[m].isRunning => \A x \in timers : ~(x.mon = m /\ x.kind = "heartbeat")
  /\ \A f \in lateFires : f.kind # "heartbeat"

C33_Witness ==
  \E m \in 1..Len(monitors) :
    /\ monitors[m].isRunning
    /\ timersMade >= 4
    /\ TxEvent(monitors[m].heartbeatInterval, "monitor", 0) \in sinkTx
    /\ \E t \in BotTicks : poll[t].mon = m /\ poll[t].pc # "idle"

\* C35: at most one polling tick of the monitor is executing at any time:
\* no two ticks are between their start and their end together.
C35_AtMostOneTickInFlight ==
  \A t, u \in Ticks : (tick[t].pc # "idle" /\ tick[u].pc # "idle") => t = u

\* C31: with a wallet key and a sell percentage that pass validation and
\* the target address left empty, initialize() does not fail: the bot
\* reaches its initialized phase, where changeToken can give it an asset.
C31_EmptyTargetStillStarts ==
  (/\ config.walletPrivateKey # ""
   /\ config.targetTokenAddress = NoAsset
   /\ Above(config.sellPercentage, 0)
   /\ AtMost(config.sellPercentage, 100))
  => phase # "failed"

\* C37: once two overlapping changeToken calls have completed, only the
\* monitor the bot references holds timers (no monitor built by the pair
\* and then replaced keeps polling), and on a running bot whose second
\* call succeeded that monitor holds both of its timers.
C37_NoOrphanAfterOverlap ==
  [][\A first, second \in Assets \cup {Malformed} :
       changeTokenOverlapped(first, second) =>
         /\ \A x \in timers' : x.mon = Len(monitors')
         /\ (botIsRunning /\ second \in Assets) =>
              /\ \E x \in timers' : x.mon = Len(monitors') /\ x.kind = "polling"
              /\ \E x \in timers' : x.mon = Len(monitors') /\ x.kind = "heartbeat"]_vars

\* C36: after a changeToken call has completed, the asset the trade
\* executor sells is the asset whose balance the token tracker measures
\* and the asset the bot's monitor watches.
C36_ExecutorFollowsChange ==
  lastChange.returned =>
    /\ tradeExecutorMint = tokenTracker
    /\ tradeExecutorMint = monitors[mempoolMonitor].targetTokenAddress

\* C32: when the process exits after a shutdown signal, no polling timer
\* and no heartbeat timer of any monitor is still active.
C32_ShutdownCancelsTimers ==
  phase = "exited" => timers = {}

\* Balance changes of a transaction's accounts, around the dust floor.
BalanceChanges == {0 - 300000000, 0 - 10000001, 0 - 10000000, 0 - 5000000, 0, 5000000}

\* C34: no transaction that moves less than the dust floor is classified
\* as a buy or triggers a reaction: every 'buy' event the parsing-service
\* path emits and every buyInfo it builds is for at least the floor, and
\* every buyInfo parseBuyOrder returns is for at least the floor.
C34_DustIsNeverABuy ==
  /\ \A e \in sinkTx : e.transactionType = "buy" => e.solAmount >= DustFloor
  /\ \A s \in Sigs : requests[s] > 0 => ParsedLamports(s) >= DustFloor
  /\ \A a, b \in BalanceChanges : \A isPumpTx \in BOOLEAN :
       parseBuyOrder(<<a, b>>, isPumpTx) # NoBuyInfo
         => parseBuyOrder(<<a, b>>, isPumpTx).solAmount >= DustFloor

\* C40: in the CombinedServer and CLI handlers, a sell that executeSell
\* completed is counted in sellOrdersExecuted (and its sell-executed notice
\* emitted where there is a sink), and a sell that failed or was dropped is
\* logged as failed without an exception raised inside the handler.
C40_OrchestratorsRecordSells ==
  \A c \in Tasks : \A sink \in BOOLEAN :
    (sell[c].pc = "returned" /\ IsPositive(sell[c].amount)) =>
      LET after == handleBuyDetectedAfterSell(sell[c].result, sink)
      IN /\ sell[c].result.kind = "result" =>
              /\ after.sellOrdersExecuted >= 1
              /\ after.sellExecuted = sink
         /\ sell[c].result.kind = "null" =>
              /\ ~after.raised
              /\ after.logged = "Sell order failed"
              /\ after.sellOrdersExecuted = 0

====
